---- MODULE Spec2Model ----
(***************************************************************************)
(* The match-gathering pipeline of league-trading:                         *)
(*   src/data/match_generation.py  gather_matches                          *)
(*   src/data/duckdb.py            MatchDatabase, QueryProgressTracker     *)
(*   src/data/riot_api.py          Match, MatchParticipant                 *)
(* The Riot API is the environment: the outcome of a request (a page of    *)
(* ids, a payload, or an exception) is chosen nondeterministically.        *)
(* RIOT_API_KEY is set, so that RiotAPI() at line 52 returns.              *)
(***************************************************************************)
EXTENDS Integers, Sequences, FiniteSets, TLC

\* ------------------------------------------------------------- bounds
\* longest players list handed to gather_matches
MaxPlayers == 2
\* largest target_num_matches
MaxTarget == 5
\* largest index a caller of update_start_index writes
MaxIndex == 2
\* longest list handed to upsert_many
MaxBatch == 2

\* -------------------------------------------------- program constants
batch_size_match_ids_by_puuid == 1
batch_size_match_details == 1
MIN_MATCHES_PER_PLAYER == 2

\* ------------------------------------------------------- input domains
Puuids == {"p1", "p2"}
MatchIds == {"M1", "M2", "M3"}
Platforms == {"NA1"}
Ranks == {30}
Day1 == "2025-10-29T00:00:00"
Day2 == "2025-10-30T00:00:00"
Day3 == "2025-10-31T00:00:00"
\* (start_time, end_time) pairs a caller passes
Windows == {<<Day1, Day2>>, <<Day2, Day3>>}
\* every target up to 2 per player gives the same matches_per_player: 0 stands
\* for them; the two others give request counts on either side of the length
\* of the longest history
Targets == {0, MaxTarget - 2, MaxTarget}

RECURSIVE SeqsUpTo(_, _)
SeqsUpTo(S, n) ==
    IF n = 0 THEN {<<>>}
    ELSE LET shorter == SeqsUpTo(S, n - 1)
         IN shorter \cup {Append(s, x) : s \in {t \in shorter : Len(t) = n - 1}, x \in S}

PlayerLists == SeqsUpTo(Puuids, MaxPlayers)

Min(a, b) == IF a <= b THEN a ELSE b
Max(a, b) == IF a >= b THEN a ELSE b
Range(s) == {s[k] : k \in DOMAIN s}

\* every ordering of a finite set as a sequence: list(set)
Orderings(S) ==
    {s \in [1..Cardinality(S) -> S] : \A a, b \in 1..Cardinality(S) : a # b => s[a] # s[b]}

\* ------------------------------------------------------------- util.py
PLATFORM_TO_REGION == [pl \in {"NA1", "BR1", "KR"} |->
    CASE pl = "NA1" -> "americas" [] pl = "BR1" -> "americas" [] pl = "KR" -> "asia"]

\* the time zones the process may run in, and what each is ahead of UTC on
\* the days of the windows, in seconds
TimeZones == {"UTC", "America/New_York", "Asia/Seoul"}
UtcOffset == [z \in TimeZones |->
    CASE z = "UTC" -> 0 [] z = "America/New_York" -> -14400 [] z = "Asia/Seoul" -> 32400]
\* the instant at which the naive date-time begins in UTC, in epoch seconds
UtcEpoch(iso_string) ==
    CASE iso_string = Day1 -> 1761696000
      [] iso_string = Day2 -> 1761782400
      [] iso_string = Day3 -> 1761868800

\* datetime.fromisoformat(s).timestamp() truncated to int: a date-time
\* without offset is read in the local time zone of the process
iso_to_timestamp_s(iso_string, zone) == UtcEpoch(iso_string) - UtcOffset[zone]

\* ----------------------------------------------------- the environment
\* The match history the API holds for a player in a time window, newest first.
History(puuid, region, start_time_s, end_time_s) ==
    IF region = "americas" /\ start_time_s = UtcEpoch(Day1)
                           /\ end_time_s = UtcEpoch(Day2)
    THEN (IF puuid = "p1" THEN <<"M1", "M2", "M3">> ELSE <<"M2">>)
    ELSE <<>>

\* A successful answer of GET .../matches/by-puuid/{puuid}/ids?start=&count=
MatchIdsPage(puuid, region, start_time_s, end_time_s, start, count) ==
    LET h == History(puuid, region, start_time_s, end_time_s)
    IN SubSeq(h, start + 1, Min(start + count, Len(h)))

\* JSON values as Python holds them: an object is a record, an array a
\* sequence, a string a string. The object without a key and None have no
\* such form and are written as two records of their own. The first character
\* of the printed value tells a dict, a list and a string apart.
None == [py_none |-> TRUE]
EmptyObject == [py_empty_dict |-> TRUE]
IsNone(v) == ToString(v) = ToString(None)
IsString(v) == SubSeq(ToString(v), 1, 1) = "\""
IsListOrTuple(v) == SubSeq(ToString(v), 1, 1) = "<"
IsDict(v) == SubSeq(ToString(v), 1, 1) = "[" /\ ~IsNone(v)
\* `not v`: None, "", 0, False and the empty containers
Falsy(v) ==
    ToString(v) \in {ToString(None), ToString(EmptyObject), "\"\"", "0", "FALSE", "<<>>", "{}"}

\* Payloads GET .../matches/{match_id} can answer with.
ParticipantPayload(puuid) ==
    [puuid |-> puuid, championName |-> "Camille", individualPosition |-> "TOP",
     teamPosition |-> "TOP", teamId |-> 100, win |-> FALSE]
InfoPayload(parts) ==
    [gameCreation |-> 1, gameDuration |-> 2, gameEndTimestamp |-> 3, gameMode |-> "CLASSIC",
     gameStartTimestamp |-> 4, gameType |-> "MATCHED_GAME", gameVersion |-> "15.20",
     participants |-> parts]
\* well-formed, no participants
PayloadNoParticipants(id) == [metadata |-> [matchId |-> id], info |-> InfoPayload(<<>>)]
\* well-formed, one participant
PayloadOneParticipant(id) ==
    [metadata |-> [matchId |-> id], info |-> InfoPayload(<<ParticipantPayload("p1")>>)]
\* the required field 'metadata' is missing
PayloadMalformed(id) == [info |-> InfoPayload(<<>>)]
\* an empty JSON object: falsy in Python
PayloadEmpty == EmptyObject
\* metadata.matchId is the empty string
PayloadEmptyMatchId == [metadata |-> [matchId |-> ""], info |-> InfoPayload(<<>>)]
MatchPayloads(id) ==
    {PayloadNoParticipants(id), PayloadOneParticipant(id), PayloadMalformed(id), PayloadEmpty,
     PayloadEmptyMatchId}

\* ----------------------------------------------------------- riot_api.py
Raised(kind) == [ok |-> FALSE, error |-> kind]
Returned(v) == [ok |-> TRUE, value |-> v]

\* _required (lines 31-39): ValueError when the key is absent, or its value
\* None or ""; a container that is no dict raises TypeError at line 34
_required(container, key) ==
    IF ~IsDict(container) THEN Raised("TypeError")
    ELSE IF key \notin DOMAIN container THEN Raised("ValueError")
    ELSE IF IsNone(container[key]) \/ ToString(container[key]) = "\"\""
    THEN Raised("ValueError")
    ELSE Returned(container[key])

\* MatchParticipant.from_json: the constructor call names six of the seven
\* required fields of the dataclass (rank_num is left out), so it raises TypeError.
MatchParticipant_from_json(payload) ==
    IF ~IsDict(payload) THEN Raised("TypeError")
    ELSE IF "puuid" \notin DOMAIN payload THEN Raised("ValueError")
    ELSE IF /\ ("championName" \notin DOMAIN payload \/ Falsy(payload.championName))
            /\ "championId" \notin DOMAIN payload
    THEN Raised("ValueError")
    ELSE IF {"individualPosition", "teamPosition", "teamId"} \subseteq DOMAIN payload
    THEN Raised("TypeError")
    ELSE Raised("ValueError")

\* the fields of info the constructor call of lines 129-139 reads
InfoFields == {"gameCreation", "gameDuration", "gameEndTimestamp", "gameMode",
               "gameStartTimestamp", "gameType", "gameVersion"}

\* Match.from_json
Match_from_json(payload) ==
    IF ~IsDict(payload) THEN Raised("TypeError")
    ELSE IF "metadata" \notin DOMAIN payload THEN Raised("ValueError")
    ELSE IF "info" \notin DOMAIN payload THEN Raised("ValueError")
    ELSE IF ~IsDict(payload.info) THEN Raised("TypeError")
    ELSE IF "participants" \notin DOMAIN payload.info THEN Raised("ValueError")
    ELSE IF ~IsListOrTuple(payload.info.participants) THEN Raised("ValueError")
    ELSE LET pp == payload.info.participants
             parsed == [k \in DOMAIN pp |-> MatchParticipant_from_json(pp[k])]
             match_id == _required(payload.metadata, "matchId")
         IN IF \E k \in DOMAIN pp : ~parsed[k].ok
            THEN Raised(parsed[CHOOSE k \in DOMAIN pp :
                                 ~parsed[k].ok /\ \A l \in DOMAIN pp : ~parsed[l].ok => k <= l].error)
            ELSE IF ~match_id.ok THEN match_id
            ELSE IF ~(InfoFields \subseteq DOMAIN payload.info) THEN Raised("ValueError")
            ELSE Returned([match_id |-> match_id.value,
                           game_creation |-> payload.info.gameCreation,
                           game_duration |-> payload.info.gameDuration,
                           game_end_timestamp |-> payload.info.gameEndTimestamp,
                           game_mode |-> payload.info.gameMode,
                           game_start_timestamp |-> payload.info.gameStartTimestamp,
                           game_type |-> payload.info.gameType,
                           game_version |-> payload.info.gameVersion,
                           participants |-> [k \in DOMAIN pp |-> parsed[k].value]])

\* match_obj.set_rank(rank): class Match defines no such attribute, so the
\* attribute lookup raises AttributeError.
Match_set_rank(match, rank) == Raised("AttributeError")

\* --------------------------------------------------------------- state
VARIABLES
    query_progress,      \* rows of table query_progress
    matches_table,       \* rows of table matches
    participants_table,  \* rows of table participants
    con_closed,          \* match_database.con has been closed
    tz,                  \* the time zone of the machine the processes run on
    pc,                  \* where the gather_matches call in progress stands
    args,                \* its arguments
    matches_per_player,
    match_ids,
    batch_lo,            \* i of the running batch loop
    id_tasks,            \* one fetch_for_player task per player position
    new_match_ids,       \* list(new_match_ids)
    detail_tasks,        \* one fetch_match_details task per new match id
    matches,
    result,              \* what the last call returned
    exc,                 \* where the call raised: "none", "division", "filter"
    qpc,                 \* where the query_matches call in progress stands
    qargs,               \* its arguments
    processed_matches,
    iterations,
    rank_page_start_index,
    qlog,                \* what the query_matches call has done so far
    batch_size,          \* the two batch sizes of the gather_matches call
    progress_at_entry,   \* rows of table query_progress when the call was made
    last_end,            \* per context, where the last recorded listing ended
    zero_pages           \* (context, offset) of the listings that returned no id

vars == <<query_progress, matches_table, participants_table, con_closed, tz, pc, args, matches_per_player,
          match_ids, batch_lo, id_tasks, new_match_ids, detail_tasks, matches, result,
          exc, qpc, qargs, processed_matches, iterations, rank_page_start_index, qlog,
          batch_size, progress_at_entry, last_end, zero_pages>>

log_vars == <<last_end, zero_pages>>
batch_vars == <<batch_size, progress_at_entry>>
query_vars == <<qpc, qargs, processed_matches, iterations, rank_page_start_index, qlog>>
store_vars == <<query_progress, matches_table, participants_table, con_closed>>
frame_vars == <<args, matches_per_player, match_ids, batch_lo, id_tasks, new_match_ids,
                detail_tasks, matches, result, exc>>

\* contexts only the Progress Store is called with: one on another platform,
\* one whose window ends on another day
OtherContexts == {<<"KR", Day1, Day2, "p1">>, <<"NA1", Day1, Day3, "p1">>}
Contexts ==
    {<<pl, w[1], w[2], p>> : pl \in Platforms, w \in Windows, p \in Puuids} \cup OtherContexts
Context(a, puuid) == <<a.platform, a.start_time, a.end_time, puuid>>

\* no query_matches call is in progress
NoQuery == [platform |-> "NA1", rank |-> 30, start_time |-> Day1, end_time |-> Day2,
            num_matches |-> 0]
\* nothing done yet: roster fetches, the page of the last one (NoPage: without
\* page), gather_matches calls, and the sum of the counts they returned
NoPage == -1
NoLog == [rosters |-> 0, page |-> NoPage, pages |-> <<>>, calls |-> 0, sum |-> 0,
          raised |-> "none"]

\* the batch sizes gather_matches assigns (lines 58 and 98)
CodeBatchSizes == [match_ids_by_puuid |-> batch_size_match_ids_by_puuid,
                   match_details |-> batch_size_match_details]

NoCall == [platform |-> "NA1", start_time |-> Day1, end_time |-> Day2, target |-> 0,
           players |-> <<>>, rank |-> 30]

Init ==
    /\ query_progress = {}
    /\ matches_table = {}
    /\ participants_table = {}
    /\ con_closed = FALSE
    /\ tz \in TimeZones
    /\ pc = "idle"
    /\ args = NoCall
    /\ matches_per_player = 0
    /\ match_ids = {}
    /\ batch_lo = 0
    /\ id_tasks = <<>>
    /\ new_match_ids = <<>>
    /\ detail_tasks = <<>>
    /\ matches = <<>>
    /\ result = 0
    /\ exc = "none"
    /\ qpc = "idle"
    /\ qargs = NoQuery
    /\ processed_matches = 0
    /\ iterations = 0
    /\ rank_page_start_index = 1
    /\ qlog = NoLog
    /\ batch_size = CodeBatchSizes
    /\ progress_at_entry = {}
    /\ last_end = [c \in Contexts |-> 0]
    /\ zero_pages = {}

\* ------------------------------------------------------------ duckdb.py
\* variant: the stored index is ignored, every listing starts at 0
get_query_start_index_from_zero(tbl, platform, start_time, end_time, player_id) == 0

\* QueryProgressTracker.get_query_start_index
get_query_start_index(tbl, platform, start_time, end_time, player_id) ==
    LET hit == {r \in tbl : /\ r.platform = platform /\ r.start_time = start_time
                            /\ r.end_time = end_time /\ r.puuid = player_id}
    IN IF hit = {} THEN 0 ELSE (CHOOSE r \in hit : TRUE).last_start_index

\* variant: ON CONFLICT (key) DO NOTHING, the stored index is kept
update_start_index_do_nothing(tbl, platform, start_time, end_time, puuid, last_start_index) ==
    IF \E r \in tbl : /\ r.platform = platform /\ r.start_time = start_time
                      /\ r.end_time = end_time /\ r.puuid = puuid
    THEN tbl
    ELSE tbl \cup {[platform |-> platform, start_time |-> start_time, end_time |-> end_time,
                    puuid |-> puuid, last_start_index |-> last_start_index]}

\* variant: the row is keyed on the player alone
update_start_index_keyed_on_player(tbl, platform, start_time, end_time, puuid, last_start_index) ==
    {r \in tbl : r.puuid # puuid}
    \cup {[platform |-> platform, start_time |-> start_time, end_time |-> end_time,
           puuid |-> puuid, last_start_index |-> last_start_index]}

\* QueryProgressTracker.update_start_index: INSERT ... ON CONFLICT (key) DO UPDATE
update_start_index(tbl, platform, start_time, end_time, puuid, last_start_index) ==
    {r \in tbl : ~(/\ r.platform = platform /\ r.start_time = start_time
                   /\ r.end_time = end_time /\ r.puuid = puuid)}
    \cup {[platform |-> platform, start_time |-> start_time, end_time |-> end_time,
           puuid |-> puuid, last_start_index |-> last_start_index]}

\* variant: no id is filtered out
get_only_new_match_ids_unfiltered(tbl, ids) == ids

\* MatchDatabase.get_only_new_match_ids
get_only_new_match_ids(tbl, ids) ==
    IF ids = {} THEN {}
    ELSE LET existing_ids == {r.match_id : r \in {x \in tbl : x.match_id \in ids}}
         IN ids \ existing_ids

\* util.py: the members of enum Rank used here, and their values
Rank == [DIAMOND_I |-> 27, MASTER |-> 28, GRANDMASTER |-> 29, CHALLENGER |-> 30]
\* the column value that stands for SQL NULL
NullColumn == -1
\* lines 66-69: a Rank member is stored as its value, None as NULL
RankNumColumn(rank_num) ==
    IF rank_num = "None" THEN NullColumn ELSE Rank[rank_num]

\* INSERT INTO participants ... ON CONFLICT(match_id, puuid) DO NOTHING, row by row
RECURSIVE insert_participants(_, _, _)
insert_participants(tbl, match_id, parts) ==
    IF parts = <<>> THEN tbl
    ELSE LET p == Head(parts)
             row == [match_id |-> match_id, puuid |-> p.puuid, champion |-> p.champion,
                     rank_num |-> RankNumColumn(p.rank_num)]
             next == IF \E r \in tbl : r.match_id = match_id /\ r.puuid = p.puuid
                     THEN tbl ELSE tbl \cup {row}
         IN insert_participants(next, match_id, Tail(parts))

\* variant: ON CONFLICT DO UPDATE, the stored rows are overwritten
upsert_match_overwrites(db, m) ==
    [matches |-> {r \in db.matches : r.match_id # m.match_id}
                 \cup {[match_id |-> m.match_id, game_version |-> m.game_version]},
     participants |-> insert_participants(
                          {r \in db.participants : r.match_id # m.match_id},
                          m.match_id, m.participants)]

\* variant: the rows are added without looking at the key
upsert_match_unkeyed(db, m) ==
    [matches |-> db.matches \cup {[match_id |-> m.match_id, game_version |-> m.game_version]},
     participants |-> db.participants \cup
         {[match_id |-> m.match_id, puuid |-> m.participants[k].puuid,
           champion |-> m.participants[k].champion,
           rank_num |-> RankNumColumn(m.participants[k].rank_num)] :
              k \in DOMAIN m.participants}]

\* variant: a match that is already stored is skipped, participants included
upsert_match_skips_stored(db, m) ==
    IF \E r \in db.matches : r.match_id = m.match_id
    THEN db
    ELSE [matches |-> db.matches \cup
                        {[match_id |-> m.match_id, game_version |-> m.game_version]},
          participants |-> insert_participants(db.participants, m.match_id,
                                               m.participants)]

\* MatchDatabase.upsert_match on the pair of tables
upsert_match(db, m) ==
    [matches |-> IF \E r \in db.matches : r.match_id = m.match_id
                 THEN db.matches
                 ELSE db.matches \cup {[match_id |-> m.match_id, game_version |-> m.game_version]},
     participants |-> insert_participants(db.participants, m.match_id, m.participants)]

\* MatchDatabase.upsert_many: the tables after the loop, and the count returned
RECURSIVE upsert_many_db(_, _)
upsert_many_db(db, ms) ==
    IF ms = <<>> THEN db ELSE upsert_many_db(upsert_match(db, Head(ms)), Tail(ms))
\* variant: the count of the distinct match ids of the input
upsert_many_count_distinct(ms) == Cardinality({ms[k].match_id : k \in DOMAIN ms})

upsert_many_count(ms) == Len(ms)

StoredIds == {r.match_id : r \in matches_table}

\* Match objects another caller of the store may upsert
SampleMatches ==
    {[match_id |-> id, game_version |-> "15.20",
      participants |-> <<[puuid |-> "p1", champion |-> "Camille", rank_num |-> "CHALLENGER"]>>] :
        id \in {"M1"}}

\* --------------------------------------------------- match_generation.py
\* math.ceil(a / b) for b > 0
CeilDiv(a, b) == -((-a) \div b)

\* variant: the quotient is rounded down
MatchesPerPlayer_floor(target_num_matches, n) ==
    Max(target_num_matches \div n, MIN_MATCHES_PER_PLAYER)

\* matches_per_player = max(math.ceil(target_num_matches / len(players)), 2)
MatchesPerPlayer(target_num_matches, n) ==
    Max(CeilDiv(target_num_matches, n), MIN_MATCHES_PER_PLAYER)

\* variant: the offset is not advanced in phase 1
NextStartIndex_unchanged(start_index, ids) == start_index
\* variant: the index written back forgets where the listing started
NextStartIndex_count_only(start_index, ids) == Len(ids)

\* variant: an empty page moves the index one further
NextStartIndex_past_empty(start_index, ids) == start_index + Max(Len(ids), 1)

\* the index written back after a listing: start_index + len(ids)
NextStartIndex(start_index, ids) == start_index + Len(ids)

Idle == pc = "idle"

\* A fetch_for_player task: its state, the start and count of its request, the ids it
\* got, and what the log held for its context when the request was issued: where the
\* previous listing ended, and whether that listing returned no id.
PendingIdTask ==
    [st |-> "pending", start_index |-> 0, count |-> 0, ids |-> <<>>, prev_end |-> 0,
     zero_before |-> FALSE]
PendingDetailTask == [st |-> "pending", outcome |-> "none"]

\* a Progress Store call of this gather_matches call has raised
ProgressStoreFailed == \E k \in DOMAIN id_tasks : id_tasks[k].st \in {"read_error", "write_error"}
IdTaskDone(t) == t.st \in {"ok", "error", "read_error", "write_error"}
InBatch(j, lo, size) == lo < j /\ j <= lo + size

\* gather_matches entered with a non-empty players list (lines 52-58)
gather_matches_entry(a) ==
    /\ Idle
    /\ Len(a.players) # 0
    /\ pc' = "phase1"
    /\ args' = a
    /\ matches_per_player' = MatchesPerPlayer(a.target, Len(a.players))
    /\ match_ids' = {}
    /\ batch_lo' = 0
    /\ id_tasks' = [j \in 1..Len(a.players) |-> PendingIdTask]
    /\ new_match_ids' = <<>>
    /\ detail_tasks' = <<>>
    /\ matches' = <<>>
    /\ exc' = "none"
    /\ UNCHANGED <<store_vars, result, log_vars>>

\* gather_matches called on its own (lines 44-58)
gather_matches(a) ==
    /\ gather_matches_entry(a)
    /\ UNCHANGED <<query_vars, batch_vars, tz>>

\* variant: an empty players list is answered with the count 0
gather_matches_empty_players_returns(a) ==
    /\ Idle
    /\ Len(a.players) = 0
    /\ pc' = "returned"
    /\ args' = a
    /\ matches_per_player' = 0
    /\ match_ids' = {}
    /\ batch_lo' = 0
    /\ id_tasks' = <<>>
    /\ new_match_ids' = <<>>
    /\ detail_tasks' = <<>>
    /\ matches' = <<>>
    /\ result' = 0
    /\ exc' = "none"
    /\ UNCHANGED <<store_vars, log_vars>>
    /\ UNCHANGED <<query_vars, batch_vars, tz>>

\* gather_matches entered with players = []: line 55 divides by len(players)
gather_matches_empty_players_entry(a) ==
    /\ Idle
    /\ Len(a.players) = 0
    /\ pc' = "raised"
    /\ args' = a
    /\ matches_per_player' = 0
    /\ match_ids' = {}
    /\ batch_lo' = 0
    /\ id_tasks' = <<>>
    /\ new_match_ids' = <<>>
    /\ detail_tasks' = <<>>
    /\ matches' = <<>>
    /\ exc' = "division"
    /\ UNCHANGED <<store_vars, result, log_vars>>

\* gather_matches called on its own with players = []
gather_matches_empty_players(a) ==
    /\ gather_matches_empty_players_entry(a)
    /\ UNCHANGED <<query_vars, batch_vars, tz>>

\* fetch_for_player up to its await: reads the start index, converts the
\* times and issues the request (lines 62-74)
fetch_for_player_start(j) ==
    /\ pc = "phase1"
    /\ j \in DOMAIN id_tasks
    /\ InBatch(j, batch_lo, batch_size.match_ids_by_puuid)
    /\ id_tasks[j].st = "pending"
    /\ \A k \in DOMAIN id_tasks : k < j => id_tasks[k].st # "pending"
    /\ LET start_index == get_query_start_index(query_progress, args.platform,
                               args.start_time, args.end_time, args.players[j])
           c == Context(args, args.players[j])
       IN id_tasks' = [id_tasks EXCEPT ![j] =
             [st |-> "inflight", start_index |-> start_index, count |-> matches_per_player,
              ids |-> <<>>, prev_end |-> last_end[c],
              zero_before |-> <<c, last_end[c]>> \in zero_pages]]
    /\ UNCHANGED <<store_vars, pc, args, matches_per_player, match_ids, batch_lo,
                   new_match_ids, detail_tasks, matches, result, exc, log_vars>>
    /\ UNCHANGED <<query_vars, batch_vars, tz>>

\* the ids the request of task j is answered with when it succeeds
IdsAnswer(j) ==
    MatchIdsPage(args.players[j], PLATFORM_TO_REGION[args.platform],
                 iso_to_timestamp_s(args.start_time, tz), iso_to_timestamp_s(args.end_time, tz),
                 id_tasks[j].start_index, id_tasks[j].count)

\* fetch_for_player after a successful request (lines 75-78)
fetch_for_player_ok(j) ==
    /\ pc = "phase1"
    /\ j \in DOMAIN id_tasks
    /\ id_tasks[j].st = "inflight"
    /\ LET ids == IdsAnswer(j)
           c == Context(args, args.players[j])
       IN /\ query_progress' = update_start_index(query_progress, args.platform,
                 args.start_time, args.end_time, args.players[j],
                 NextStartIndex(id_tasks[j].start_index, ids))
          /\ match_ids' = match_ids \cup Range(ids)
          /\ id_tasks' = [id_tasks EXCEPT ![j].st = "ok", ![j].ids = ids]
          /\ last_end' = [last_end EXCEPT ![c] = id_tasks[j].start_index + Len(ids)]
          /\ zero_pages' = IF ids = <<>> THEN zero_pages \cup {<<c, id_tasks[j].start_index>>}
                           ELSE zero_pages
    /\ UNCHANGED <<matches_table, participants_table, con_closed, pc, args, matches_per_player,
                   batch_lo, new_match_ids, detail_tasks, matches, result, exc>>
    /\ UNCHANGED <<query_vars, batch_vars, tz>>

\* variant: the exception of the request leaves fetch_for_player and ends the call
fetch_for_player_aborts(j) ==
    /\ pc = "phase1"
    /\ j \in DOMAIN id_tasks
    /\ id_tasks[j].st = "inflight"
    /\ id_tasks' = [id_tasks EXCEPT ![j].st = "error"]
    /\ pc' = "raised"
    /\ UNCHANGED <<store_vars, args, matches_per_player, match_ids, batch_lo,
                   new_match_ids, detail_tasks, matches, result, exc, log_vars>>
    /\ UNCHANGED <<query_vars, batch_vars, tz>>

\* variant: the failed request is recorded as a listing of count ids
fetch_for_player_error_advances(j) ==
    /\ pc = "phase1"
    /\ j \in DOMAIN id_tasks
    /\ id_tasks[j].st = "inflight"
    /\ id_tasks' = [id_tasks EXCEPT ![j].st = "error"]
    /\ query_progress' = update_start_index(query_progress, args.platform,
           args.start_time, args.end_time, args.players[j],
           id_tasks[j].start_index + id_tasks[j].count)
    /\ UNCHANGED <<matches_table, participants_table, con_closed, pc, args,
                   matches_per_player, match_ids, batch_lo, new_match_ids, detail_tasks,
                   matches, result, exc, log_vars>>
    /\ UNCHANGED <<query_vars, batch_vars, tz>>

\* fetch_for_player when the request raises: the handler of lines 79-80
fetch_for_player_error(j) ==
    /\ pc = "phase1"
    /\ j \in DOMAIN id_tasks
    /\ id_tasks[j].st = "inflight"
    /\ id_tasks' = [id_tasks EXCEPT ![j].st = "error"]
    /\ UNCHANGED <<store_vars, pc, args, matches_per_player, match_ids, batch_lo,
                   new_match_ids, detail_tasks, matches, result, exc, log_vars>>
    /\ UNCHANGED <<query_vars, batch_vars, tz>>

\* variant: the loop takes the next batch without waiting for the running one
fetch_all_next_batch_no_barrier ==
    /\ pc = "phase1"
    /\ \A j \in DOMAIN id_tasks :
          InBatch(j, batch_lo, batch_size.match_ids_by_puuid) => id_tasks[j].st # "pending"
    /\ batch_lo + batch_size.match_ids_by_puuid < Len(args.players)
    /\ batch_lo' = batch_lo + batch_size.match_ids_by_puuid
    /\ UNCHANGED <<store_vars, pc, args, matches_per_player, match_ids, id_tasks,
                   new_match_ids, detail_tasks, matches, result, exc, log_vars>>
    /\ UNCHANGED <<query_vars, batch_vars, tz>>

\* variant: the loop takes the next batch only when every task of the running
\* one has succeeded
fetch_all_next_batch_waits_for_success ==
    /\ pc = "phase1"
    /\ \A j \in DOMAIN id_tasks :
          InBatch(j, batch_lo, batch_size.match_ids_by_puuid) => id_tasks[j].st = "ok"
    /\ batch_lo + batch_size.match_ids_by_puuid < Len(args.players)
    /\ batch_lo' = batch_lo + batch_size.match_ids_by_puuid
    /\ UNCHANGED <<store_vars, pc, args, matches_per_player, match_ids, id_tasks,
                   new_match_ids, detail_tasks, matches, result, exc, log_vars>>
    /\ UNCHANGED <<query_vars, batch_vars, tz>>

\* fetch_all: the gather of a batch is over, the loop takes the next batch (lines 83-86)
fetch_all_next_batch ==
    /\ pc = "phase1"
    /\ \A j \in DOMAIN id_tasks :
          InBatch(j, batch_lo, batch_size.match_ids_by_puuid) => IdTaskDone(id_tasks[j])
    /\ batch_lo + batch_size.match_ids_by_puuid < Len(args.players)
    /\ batch_lo' = batch_lo + batch_size.match_ids_by_puuid
    /\ UNCHANGED <<store_vars, pc, args, matches_per_player, match_ids, id_tasks,
                   new_match_ids, detail_tasks, matches, result, exc, log_vars>>
    /\ UNCHANGED <<query_vars, batch_vars, tz>>

\* variant: the filter runs once the first batch of fetch_all is over
novelty_filter_after_first_batch ==
    /\ pc = "phase1"
    /\ \A j \in DOMAIN id_tasks :
          InBatch(j, 0, batch_size.match_ids_by_puuid) => IdTaskDone(id_tasks[j])
    /\ \A j \in DOMAIN id_tasks : id_tasks[j].st # "inflight"
    /\ \E order \in Orderings(get_only_new_match_ids(matches_table, match_ids)) :
          /\ new_match_ids' = order
          /\ detail_tasks' = [j \in DOMAIN order |-> PendingDetailTask]
    /\ pc' = "phase3"
    /\ batch_lo' = 0
    /\ UNCHANGED <<store_vars, args, matches_per_player, match_ids, id_tasks, matches,
                   result, exc, log_vars>>
    /\ UNCHANGED <<query_vars, batch_vars, tz>>

\* line 91 once fetch_all has returned, then the task list of fetch_all_matches
novelty_filter ==
    /\ pc = "phase1"
    /\ \A j \in DOMAIN id_tasks : IdTaskDone(id_tasks[j])
    /\ batch_lo + batch_size.match_ids_by_puuid >= Len(args.players)
    /\ ~con_closed \/ match_ids = {}
    /\ \E order \in Orderings(get_only_new_match_ids(matches_table, match_ids)) :
          /\ new_match_ids' = order
          /\ detail_tasks' = [j \in DOMAIN order |-> PendingDetailTask]
    /\ pc' = "phase3"
    /\ batch_lo' = 0
    /\ UNCHANGED <<store_vars, args, matches_per_player, match_ids, id_tasks, matches,
                   result, exc, log_vars>>
    /\ UNCHANGED <<query_vars, batch_vars, tz>>

\* get_only_new_match_ids on the connection that an earlier upsert_many of
\* this process closed (duckdb.py line 127 after line 99): raises
novelty_filter_closed ==
    /\ pc = "phase1"
    /\ \A j \in DOMAIN id_tasks : IdTaskDone(id_tasks[j])
    /\ batch_lo + batch_size.match_ids_by_puuid >= Len(args.players)
    /\ con_closed /\ match_ids # {}
    /\ pc' = "raised"
    /\ exc' = "filter"
    /\ UNCHANGED <<store_vars, args, matches_per_player, match_ids, batch_lo, id_tasks,
                   new_match_ids, detail_tasks, matches, result, log_vars>>
    /\ UNCHANGED <<query_vars, batch_vars, tz>>

DetailTaskDone(t) == t.st = "done"

\* fetch_match_details up to its await: the request for the match is issued (lines 101-105)
fetch_match_details_start(j) ==
    /\ pc = "phase3"
    /\ j \in DOMAIN detail_tasks
    /\ InBatch(j, batch_lo, batch_size.match_details)
    /\ detail_tasks[j].st = "pending"
    /\ \A k \in DOMAIN detail_tasks : k < j => detail_tasks[k].st # "pending"
    /\ detail_tasks' = [detail_tasks EXCEPT ![j].st = "inflight"]
    /\ UNCHANGED <<store_vars, pc, args, matches_per_player, match_ids, batch_lo, id_tasks,
                   new_match_ids, matches, result, exc, log_vars>>
    /\ UNCHANGED <<query_vars, batch_vars, tz>>

\* What lines 106-112 do with a payload: the list to append to matches, and how the
\* task ended: "empty" (falsy payload, nothing appended), "error" (from_json raised,
\* handler of 111-112), "rank_error" (parsed, then set_rank raised, same handler),
\* "appended".
HandleMatchData(match_data, rank) ==
    IF Falsy(match_data) THEN [append |-> <<>>, outcome |-> "empty"]
    ELSE LET parsed == Match_from_json(match_data)
         IN IF ~parsed.ok THEN [append |-> <<>>, outcome |-> "error"]
            ELSE LET stamped == Match_set_rank(parsed.value, rank)
                 IN IF ~stamped.ok THEN [append |-> <<>>, outcome |-> "rank_error"]
                    ELSE [append |-> <<stamped.value>>, outcome |-> "appended"]

\* variant: each match is written to the Match Store as soon as it was fetched
fetch_match_details_ok_writes_store(j, match_data) ==
    /\ pc = "phase3"
    /\ j \in DOMAIN detail_tasks
    /\ detail_tasks[j].st = "inflight"
    /\ match_data \in MatchPayloads(new_match_ids[j])
    /\ LET h == HandleMatchData(match_data, args.rank)
       IN /\ matches' = matches \o h.append
          /\ detail_tasks' = [detail_tasks EXCEPT ![j] =
                [st |-> "done", outcome |-> h.outcome]]
    /\ matches_table' = matches_table \cup
          {[match_id |-> new_match_ids[j], game_version |-> "15.20"]}
    /\ UNCHANGED <<query_progress, participants_table, con_closed, pc, args,
                   matches_per_player, match_ids, batch_lo, id_tasks,
                   new_match_ids, result, exc, log_vars>>
    /\ UNCHANGED <<query_vars, batch_vars, tz>>

\* fetch_match_details after the request returned match_data (lines 106-110)
fetch_match_details_ok(j, match_data) ==
    /\ pc = "phase3"
    /\ j \in DOMAIN detail_tasks
    /\ detail_tasks[j].st = "inflight"
    /\ match_data \in MatchPayloads(new_match_ids[j])
    /\ LET h == HandleMatchData(match_data, args.rank)
       IN /\ matches' = matches \o h.append
          /\ detail_tasks' = [detail_tasks EXCEPT ![j] =
                [st |-> "done", outcome |-> h.outcome]]
    /\ UNCHANGED <<store_vars, pc, args, matches_per_player, match_ids, batch_lo, id_tasks,
                   new_match_ids, result, exc, log_vars>>
    /\ UNCHANGED <<query_vars, batch_vars, tz>>

\* variant: a detail request that raised is made again
fetch_match_details_error_retried(j) ==
    /\ pc = "phase3"
    /\ j \in DOMAIN detail_tasks
    /\ detail_tasks[j].st = "inflight"
    /\ detail_tasks[j].outcome = "none"
    /\ detail_tasks' = [detail_tasks EXCEPT ![j] = [st |-> "pending", outcome |-> "error"]]
    /\ UNCHANGED <<store_vars, pc, args, matches_per_player, match_ids, batch_lo, id_tasks,
                   new_match_ids, matches, result, exc, log_vars>>
    /\ UNCHANGED <<query_vars, batch_vars, tz>>

\* fetch_match_details when the request raises: the handler of lines 111-112
fetch_match_details_error(j) ==
    /\ pc = "phase3"
    /\ j \in DOMAIN detail_tasks
    /\ detail_tasks[j].st = "inflight"
    /\ detail_tasks' = [detail_tasks EXCEPT ![j].st = "done", ![j].outcome = "error"]
    /\ UNCHANGED <<store_vars, pc, args, matches_per_player, match_ids, batch_lo, id_tasks,
                   new_match_ids, matches, result, exc, log_vars>>
    /\ UNCHANGED <<query_vars, batch_vars, tz>>

\* fetch_all_matches: the loop takes the next batch (lines 115-118)
fetch_all_matches_next_batch ==
    /\ pc = "phase3"
    /\ \A j \in DOMAIN detail_tasks :
          InBatch(j, batch_lo, batch_size.match_details) => DetailTaskDone(detail_tasks[j])
    /\ batch_lo + batch_size.match_details < Len(new_match_ids)
    /\ batch_lo' = batch_lo + batch_size.match_details
    /\ UNCHANGED <<store_vars, pc, args, matches_per_player, match_ids, id_tasks,
                   new_match_ids, detail_tasks, matches, result, exc, log_vars>>
    /\ UNCHANGED <<query_vars, batch_vars, tz>>

\* lines 124-126: upsert_many(matches), and its count is returned; leaving the
\* block `with self.con:` of upsert_many closes the connection
persist ==
    /\ pc = "phase3"
    /\ \A j \in DOMAIN detail_tasks : DetailTaskDone(detail_tasks[j])
    /\ batch_lo + batch_size.match_details >= Len(new_match_ids)
    /\ ~con_closed \/ matches = <<>>
    /\ LET db == upsert_many_db([matches |-> matches_table,
                                 participants |-> participants_table], matches)
       IN /\ matches_table' = db.matches
          /\ participants_table' = db.participants
    /\ result' = upsert_many_count(matches)
    /\ con_closed' = TRUE
    /\ pc' = "returned"
    /\ UNCHANGED <<query_progress, args, matches_per_player, match_ids, batch_lo, id_tasks,
                   new_match_ids, detail_tasks, matches, exc, log_vars>>
    /\ UNCHANGED <<query_vars, batch_vars, tz>>

\* ---------------------------------------- other callers of the two stores
\* Between two calls nothing of the finished call's frame is left.
FrameDropped ==
    /\ pc' = "idle"
    /\ args' = NoCall
    /\ matches_per_player' = 0
    /\ match_ids' = {}
    /\ batch_lo' = 0
    /\ id_tasks' = <<>>
    /\ new_match_ids' = <<>>
    /\ detail_tasks' = <<>>
    /\ matches' = <<>>
    /\ result' = 0
    /\ exc' = "none"

\* gather_matches has returned (line 126) or raised: its frame is gone, the
\* module's match_database is as the call left it
call_over ==
    /\ pc \in {"returned", "raised"}
    /\ FrameDropped
    /\ UNCHANGED <<store_vars, log_vars>>
    /\ UNCHANGED <<query_vars, batch_vars, tz>>

\* The process ends and another one, on the same machine, imports the
\* module: lines 10-11 connect anew to the database files.
process_restart ==
    /\ Idle
    /\ qpc = "idle"
    /\ con_closed' = FALSE
    /\ UNCHANGED <<query_progress, matches_table, participants_table, pc, frame_vars,
                   log_vars>>
    /\ UNCHANGED <<query_vars, batch_vars, tz>>

\* MatchDatabase.upsert_match called with a Match built elsewhere
direct_upsert_match(m) ==
    /\ Idle
    /\ IF con_closed
       THEN UNCHANGED <<matches_table, participants_table>>
       ELSE LET db == upsert_match([matches |-> matches_table,
                                    participants |-> participants_table], m)
            IN /\ matches_table' = db.matches
               /\ participants_table' = db.participants
    /\ UNCHANGED <<query_progress, con_closed, pc, frame_vars, log_vars>>
    /\ UNCHANGED <<query_vars, batch_vars, tz>>

\* MatchDatabase.clear_all_data
MatchDatabase_clear_all_data ==
    /\ Idle
    /\ IF con_closed
       THEN UNCHANGED <<matches_table, participants_table>>
       ELSE /\ participants_table' = {}
            /\ matches_table' = {}
    /\ UNCHANGED <<query_progress, con_closed, pc, frame_vars, log_vars>>
    /\ UNCHANGED <<query_vars, batch_vars, tz>>

\* QueryProgressTracker.clear_all_data
QueryProgressTracker_clear_all_data ==
    /\ Idle
    /\ query_progress' = {}
    /\ last_end' = [c \in Contexts |-> 0]
    /\ zero_pages' = {}
    /\ UNCHANGED <<matches_table, participants_table, con_closed, pc, frame_vars>>
    /\ UNCHANGED <<query_vars, batch_vars, tz>>

\* ------------------------------------------------------- store failures
\* get_query_start_index raises inside the try of fetch_for_player: the
\* handler of lines 79-80 ends the task, no request is issued
fetch_for_player_read_fails(j) ==
    /\ pc = "phase1"
    /\ j \in DOMAIN id_tasks
    /\ InBatch(j, batch_lo, batch_size.match_ids_by_puuid)
    /\ id_tasks[j].st = "pending"
    /\ \A k \in DOMAIN id_tasks : k < j => id_tasks[k].st # "pending"
    /\ id_tasks' = [id_tasks EXCEPT ![j].st = "read_error"]
    /\ UNCHANGED <<store_vars, pc, args, matches_per_player, match_ids, batch_lo,
                   new_match_ids, detail_tasks, matches, result, exc, log_vars>>
    /\ UNCHANGED <<query_vars, batch_vars, tz>>

\* the request succeeded and update_start_index raises (line 75): the same
\* handler ends the task before match_ids.update
fetch_for_player_write_fails(j) ==
    /\ pc = "phase1"
    /\ j \in DOMAIN id_tasks
    /\ id_tasks[j].st = "inflight"
    /\ id_tasks' = [id_tasks EXCEPT ![j].st = "write_error", ![j].ids = IdsAnswer(j)]
    /\ UNCHANGED <<store_vars, pc, args, matches_per_player, match_ids, batch_lo,
                   new_match_ids, detail_tasks, matches, result, exc, log_vars>>
    /\ UNCHANGED <<query_vars, batch_vars, tz>>

\* variant: the failure of the filter is swallowed and every id is taken as new
novelty_filter_swallowed ==
    /\ pc = "phase1"
    /\ \A j \in DOMAIN id_tasks : IdTaskDone(id_tasks[j])
    /\ batch_lo + batch_size.match_ids_by_puuid >= Len(args.players)
    /\ match_ids # {}
    /\ \E order \in Orderings(match_ids) :
          /\ new_match_ids' = order
          /\ detail_tasks' = [j \in DOMAIN order |-> PendingDetailTask]
    /\ pc' = "phase3"
    /\ batch_lo' = 0
    /\ exc' = "filter"
    /\ UNCHANGED <<store_vars, args, matches_per_player, match_ids, id_tasks, matches,
                   result, log_vars>>
    /\ UNCHANGED <<query_vars, batch_vars, tz>>

\* get_only_new_match_ids raises at line 91 (its query runs only for a non-empty set)
novelty_filter_fails ==
    /\ pc = "phase1"
    /\ \A j \in DOMAIN id_tasks : IdTaskDone(id_tasks[j])
    /\ batch_lo + batch_size.match_ids_by_puuid >= Len(args.players)
    /\ match_ids # {}
    /\ pc' = "raised"
    /\ exc' = "filter"
    /\ UNCHANGED <<store_vars, args, matches_per_player, match_ids, batch_lo, id_tasks,
                   new_match_ids, detail_tasks, matches, result, log_vars>>
    /\ UNCHANGED <<query_vars, batch_vars, tz>>

\* upsert_many (line 124) is handed the list `matches`, which is empty in every
\* call (set_rank, line 108, raises for each parsed match): it runs no statement,
\* so it has nothing that can raise; see call_upsert_many_fails for a failing
\* upsert_many on a list with rows.

\* ------------------------------------------------------- specifications
CallArgs ==
    {[platform |-> pl, start_time |-> w[1], end_time |-> w[2], target |-> t,
      players |-> ps, rank |-> rk] :
        pl \in Platforms, w \in Windows, t \in Targets, ps \in PlayerLists, rk \in Ranks}
AllPayloads == UNION {MatchPayloads(id) : id \in MatchIds}

Next ==
    \/ \E a \in CallArgs : gather_matches(a)
    \/ \E a \in CallArgs : gather_matches_empty_players(a)
    \/ \E j \in 1..(MaxPlayers + 1) : fetch_for_player_start(j)
    \/ \E j \in 1..(MaxPlayers + 1) : fetch_for_player_ok(j)
    \/ \E j \in 1..(MaxPlayers + 1) : fetch_for_player_error(j)
    \/ fetch_all_next_batch
    \/ novelty_filter
    \/ \E j \in 1..Cardinality(MatchIds) : fetch_match_details_start(j)
    \/ \E j \in 1..Cardinality(MatchIds), d \in AllPayloads : fetch_match_details_ok(j, d)
    \/ \E j \in 1..Cardinality(MatchIds) : fetch_match_details_error(j)
    \/ fetch_all_matches_next_batch
    \/ novelty_filter_closed
    \/ persist
    \/ call_over
    \/ process_restart
    \/ \E m \in SampleMatches : direct_upsert_match(m)
    \/ MatchDatabase_clear_all_data
    \/ QueryProgressTracker_clear_all_data

\* The pipeline with working stores; API requests may fail.
Spec == Init /\ [][Next]_vars

StoreFault ==
    \/ \E j \in 1..(MaxPlayers + 1) : fetch_for_player_read_fails(j)
    \/ \E j \in 1..(MaxPlayers + 1) : fetch_for_player_write_fails(j)
    \/ novelty_filter_fails

NextF == Next \/ StoreFault

\* The pipeline where, in addition, a call on a store may raise: either
\* Progress Store call of any player's task, and the query of the novelty filter.
SpecF == Init /\ [][NextF]_vars

\* ------------------------------------------------------------ query_matches
\* query_matches (match_generation.py lines 13-39) calls gather_matches in a
\* loop, in one process: the Match Store connection that the first
\* upsert_many closed stays closed for the later iterations.
MAX_PAGE_INDEX == 10
MAX_ITERATIONS == 10

ApexRanks == {Rank.CHALLENGER, Rank.GRANDMASTER, Rank.MASTER}
QueryRanks == ApexRanks \cup {Rank.DIAMOND_I}
QueryTargets == {0, 1, MaxTarget - 2}
QueryArgs ==
    {[platform |-> pl, rank |-> rk, start_time |-> w[1], end_time |-> w[2],
      num_matches |-> t] :
        pl \in Platforms, rk \in QueryRanks, w \in Windows, t \in QueryTargets}
\* the rosters the roster source answers with
Rosters == {<<>>, <<"p1">>, <<"p2", "p1">>}

\* variant: the loop has no iteration cap
LoopContinues_no_cap(processed, its, num) == processed < num
\* variant: the first iteration is made whatever the target
LoopContinues_at_least_once(processed, its, num) ==
    its = 0 \/ (processed < num /\ its < MAX_ITERATIONS)
\* variant: the loop gives up one iteration early
LoopContinues_cap_early(processed, its, num) ==
    processed < num /\ its < MAX_ITERATIONS - 1
\* the loop condition (line 27)
LoopContinues(processed, its, num) == processed < num /\ its < MAX_ITERATIONS

\* the page argument of the roster fetch: none for the apex ranks (line 31),
\* the page index for the others (line 34)
RosterPage(rank, index) == IF rank \in ApexRanks THEN NoPage ELSE index

\* variant: the page index grows without wrapping
NextPageIndex_unwrapped(rank, index) == IF rank \in ApexRanks THEN index ELSE index + 1
\* variant: the page index is not advanced
NextPageIndex_stuck(rank, index) == index
\* the page index after the roster fetch (lines 30-35)
NextPageIndex(rank, index) ==
    IF rank \in ApexRanks THEN index ELSE (index + 1) % MAX_PAGE_INDEX

\* the arguments of the gather_matches call of line 38
GatherArgs(q, players) ==
    [platform |-> q.platform, start_time |-> q.start_time, end_time |-> q.end_time,
     target |-> q.num_matches, players |-> players, rank |-> q.rank]

\* query_matches is called (lines 20-25)
query_matches(q) ==
    /\ qpc = "idle"
    /\ Idle
    /\ qpc' = "loop"
    /\ qargs' = q
    /\ processed_matches' = 0
    /\ iterations' = 0
    /\ rank_page_start_index' = 1
    /\ qlog' = NoLog
    /\ UNCHANGED <<store_vars, pc, frame_vars, result, log_vars>>
    /\ UNCHANGED <<batch_vars, tz>>

\* One iteration up to the call of gather_matches (lines 27-38). The roster
\* source api.get_league answers with a roster; gather_matches is entered with
\* its players.
query_matches_iteration(players) ==
    /\ qpc = "loop"
    /\ LoopContinues(processed_matches, iterations, qargs.num_matches)
    /\ iterations' = iterations + 1
    /\ rank_page_start_index' = NextPageIndex(qargs.rank, rank_page_start_index)
    /\ qlog' = [qlog EXCEPT !.rosters = @ + 1,
                            !.page = RosterPage(qargs.rank, rank_page_start_index),
                            !.pages = Append(@, RosterPage(qargs.rank, rank_page_start_index)),
                            !.calls = @ + 1]
    /\ IF Len(players) # 0
          THEN gather_matches_entry(GatherArgs(qargs, players))
          ELSE gather_matches_empty_players_entry(GatherArgs(qargs, players))
    /\ qpc' = "gather"
    /\ UNCHANGED <<qargs, processed_matches>>
    /\ UNCHANGED <<batch_vars, tz>>

\* The roster fetch raises (lines 31, 34): nothing catches it.
query_matches_roster_fails ==
    /\ qpc = "loop"
    /\ LoopContinues(processed_matches, iterations, qargs.num_matches)
    /\ iterations' = iterations + 1
    /\ qlog' = [qlog EXCEPT !.rosters = @ + 1,
                            !.page = RosterPage(qargs.rank, rank_page_start_index),
                            !.pages = Append(@, RosterPage(qargs.rank, rank_page_start_index)),
                            !.raised = "roster"]
    /\ qpc' = "raised"
    /\ UNCHANGED <<store_vars, pc, frame_vars, result, log_vars, qargs, processed_matches,
                   rank_page_start_index>>
    /\ UNCHANGED <<batch_vars, tz>>

\* gather_matches returned: its count is added (line 38)
query_matches_add ==
    /\ qpc = "gather"
    /\ pc = "returned"
    /\ processed_matches' = processed_matches + result
    /\ qlog' = [qlog EXCEPT !.sum = @ + result]
    /\ qpc' = "loop"
    /\ FrameDropped
    /\ UNCHANGED <<store_vars, log_vars, qargs, iterations, rank_page_start_index>>
    /\ UNCHANGED <<batch_vars, tz>>

\* variant: a failure of gather_matches ends the loop and the sum so far is
\* returned
query_matches_propagates_returns_sum ==
    /\ qpc = "gather"
    /\ pc = "raised"
    /\ qpc' = "returned"
    /\ qlog' = [qlog EXCEPT !.raised = exc]
    /\ FrameDropped
    /\ UNCHANGED <<store_vars, log_vars, qargs, processed_matches, iterations,
                   rank_page_start_index>>
    /\ UNCHANGED <<batch_vars, tz>>

\* gather_matches raised: query_matches has no handler
query_matches_propagates ==
    /\ qpc = "gather"
    /\ pc = "raised"
    /\ qpc' = "raised"
    /\ qlog' = [qlog EXCEPT !.raised = exc]
    /\ FrameDropped
    /\ UNCHANGED <<store_vars, log_vars, qargs, processed_matches, iterations,
                   rank_page_start_index>>
    /\ UNCHANGED <<batch_vars, tz>>

\* the loop is left and processed_matches returned (lines 27, 39)
query_matches_return ==
    /\ qpc = "loop"
    /\ ~LoopContinues(processed_matches, iterations, qargs.num_matches)
    /\ qpc' = "returned"
    /\ UNCHANGED <<store_vars, pc, frame_vars, result, log_vars, qargs, processed_matches,
                   iterations, rank_page_start_index, qlog>>
    /\ UNCHANGED <<batch_vars, tz>>

\* query_matches has returned (line 39) or raised: its frame is gone, the
\* module's match_database is as the call left it
query_over ==
    /\ qpc \in {"returned", "raised"}
    /\ qpc' = "idle"
    /\ qargs' = NoQuery
    /\ processed_matches' = 0
    /\ iterations' = 0
    /\ rank_page_start_index' = 1
    /\ qlog' = NoLog
    /\ UNCHANGED <<store_vars, pc, frame_vars, result, log_vars>>
    /\ UNCHANGED <<batch_vars, tz>>

NextQuery ==
    \/ \E q \in QueryArgs : query_matches(q)
    \/ \E players \in Rosters : query_matches_iteration(players)
    \/ query_matches_roster_fails
    \/ \E j \in 1..(MaxPlayers + 1) : fetch_for_player_start(j)
    \/ \E j \in 1..(MaxPlayers + 1) : fetch_for_player_ok(j)
    \/ \E j \in 1..(MaxPlayers + 1) : fetch_for_player_error(j)
    \/ fetch_all_next_batch
    \/ novelty_filter
    \/ novelty_filter_closed
    \/ \E j \in 1..Cardinality(MatchIds) : fetch_match_details_start(j)
    \/ \E j \in 1..Cardinality(MatchIds), d \in AllPayloads : fetch_match_details_ok(j, d)
    \/ \E j \in 1..Cardinality(MatchIds) : fetch_match_details_error(j)
    \/ fetch_all_matches_next_batch
    \/ persist
    \/ query_matches_add
    \/ query_matches_propagates
    \/ query_matches_return
    \/ query_over
    \/ process_restart

\* query_matches over the pipeline with working stores
SpecQuery == Init /\ [][NextQuery]_vars

\* ------------------------------------------- gather_matches, batch sizes tuned
\* The two batch sizes are locals that lines 56-58 and 96-98 assign; here they
\* are assigned any size from 1 up to the length of the longest players list.
BatchSizes ==
    {[match_ids_by_puuid |-> b1, match_details |-> b2] : b1, b2 \in 1..MaxPlayers}
BatchCallArgs ==
    {a \in CallArgs : Len(a.players) # 0 /\ a.target = MaxTarget - 2 /\ a.start_time = Day1}

\* gather_matches entered, the batch sizes being b (lines 52-58, 96-98)
gather_matches_batched(a, b) ==
    /\ gather_matches_entry(a)
    /\ batch_size' = b
    /\ progress_at_entry' = query_progress
    /\ UNCHANGED <<query_vars, tz>>

\* the process that called gather_matches ends
batched_call_over ==
    /\ pc \in {"returned", "raised"}
    /\ FrameDropped
    /\ batch_size' = CodeBatchSizes
    /\ progress_at_entry' = {}
    /\ UNCHANGED <<store_vars, log_vars, query_vars, tz>>

NextBatch ==
    \/ \E a \in BatchCallArgs, b \in BatchSizes : gather_matches_batched(a, b)
    \/ \E j \in 1..(MaxPlayers + 1) : fetch_for_player_start(j)
    \/ \E j \in 1..(MaxPlayers + 1) : fetch_for_player_ok(j)
    \/ \E j \in 1..(MaxPlayers + 1) : fetch_for_player_error(j)
    \/ fetch_all_next_batch
    \/ novelty_filter
    \/ \E j \in 1..Cardinality(MatchIds) : fetch_match_details_start(j)
    \/ \E j \in 1..Cardinality(MatchIds), d \in AllPayloads : fetch_match_details_ok(j, d)
    \/ \E j \in 1..Cardinality(MatchIds) : fetch_match_details_error(j)
    \/ fetch_all_matches_next_batch
    \/ novelty_filter_closed
    \/ persist
    \/ batched_call_over
    \/ process_restart
    \/ \E m \in SampleMatches : direct_upsert_match(m)

\* gather_matches with working stores, under every choice of the batch sizes
SpecBatch == Init /\ [][NextBatch]_vars

\* A step of the gather_matches call in progress: the event loop runs a task
\* that is ready, a request that was issued completes (it returns or raises),
\* or the code between the phases runs.
CallStep ==
    \/ \E j \in 1..(MaxPlayers + 1) : fetch_for_player_start(j)
    \/ \E j \in 1..(MaxPlayers + 1) : fetch_for_player_ok(j)
    \/ \E j \in 1..(MaxPlayers + 1) : fetch_for_player_error(j)
    \/ fetch_all_next_batch
    \/ novelty_filter
    \/ \E j \in 1..Cardinality(MatchIds) : fetch_match_details_start(j)
    \/ \E j \in 1..Cardinality(MatchIds), d \in AllPayloads : fetch_match_details_ok(j, d)
    \/ \E j \in 1..Cardinality(MatchIds) : fetch_match_details_error(j)
    \/ fetch_all_matches_next_batch
    \/ novelty_filter_closed
    \/ persist

\* SpecBatch where a call that can take a step eventually takes one: every
\* request completes, and asyncio runs every task that is ready.
SpecBatchLive == SpecBatch /\ WF_vars(CallStep)



\* ------------------------------------------- the Progress Store on its own
\* The calls a user of QueryProgressTracker makes, one after the other. pc names
\* the call that returned last, args holds its context, result what it returned;
\* last_end[c] is the index of the last update of context c since the last clear.
ProgressCalls == {"get_query_start_index", "update_start_index", "QueryProgressTracker.clear_all_data"}
ContextArgs(c) == [NoCall EXCEPT !.platform = c[1], !.start_time = c[2], !.end_time = c[3],
                                 !.players = <<c[4]>>]
call_frame == <<matches_per_player, match_ids, batch_lo, id_tasks, new_match_ids,
                detail_tasks, matches, exc>>
match_store_vars == <<matches_table, participants_table, con_closed>>

\* QueryProgressTracker.get_query_start_index is called
call_get_query_start_index(c) ==
    /\ pc \in {"idle"} \cup ProgressCalls
    /\ pc' = "get_query_start_index"
    /\ args' = ContextArgs(c)
    /\ result' = get_query_start_index(query_progress, c[1], c[2], c[3], c[4])
    /\ UNCHANGED <<query_progress, match_store_vars, call_frame, log_vars>>
    /\ UNCHANGED <<query_vars, batch_vars, tz>>

\* QueryProgressTracker.update_start_index is called
call_update_start_index(c, last_start_index) ==
    /\ pc \in {"idle"} \cup ProgressCalls
    /\ pc' = "update_start_index"
    /\ args' = ContextArgs(c)
    /\ query_progress' = update_start_index(query_progress, c[1], c[2], c[3], c[4],
                                            last_start_index)
    /\ last_end' = [last_end EXCEPT ![c] = last_start_index]
    /\ result' = 0
    /\ UNCHANGED <<match_store_vars, call_frame, zero_pages>>
    /\ UNCHANGED <<query_vars, batch_vars, tz>>

\* QueryProgressTracker.clear_all_data is called: DELETE FROM query_progress
call_QueryProgressTracker_clear_all_data ==
    /\ pc \in {"idle"} \cup ProgressCalls
    /\ pc' = "QueryProgressTracker.clear_all_data"
    /\ args' = NoCall
    /\ query_progress' = {}
    /\ last_end' = [c \in Contexts |-> 0]
    /\ result' = 0
    /\ UNCHANGED <<match_store_vars, call_frame, zero_pages>>
    /\ UNCHANGED <<query_vars, batch_vars, tz>>

NextProgress ==
    \/ \E c \in Contexts : call_get_query_start_index(c)
    \/ \E c \in Contexts, n \in 0..MaxIndex : call_update_start_index(c, n)
    \/ call_QueryProgressTracker_clear_all_data

SpecProgress == Init /\ [][NextProgress]_vars


\* --------------------------------------------- the Match Store on its own
\* The calls a user of one MatchDatabase makes, one after the other. pc names the
\* call that ended last; matches, match_ids and new_match_ids hold its argument
\* and what it returned, result its count, exc the exception it ended with.
MatchCalls == {"MatchDatabase", "upsert_match", "upsert_many", "get_only_new_match_ids",
               "MatchDatabase.clear_all_data", "MatchDatabase.close",
               "MatchDatabase.__exit__"}
StoreReady == pc \in {"idle"} \cup MatchCalls
store_frame == <<query_progress, args, matches_per_player, batch_lo, id_tasks, detail_tasks,
                 log_vars>>

\* Match objects handed to the store: two of them share the match id and the
\* player and differ in the other fields
StoreMatches ==
    {[match_id |-> "M1", game_version |-> "15.20",
      participants |-> <<[puuid |-> "p1", champion |-> "Camille", rank_num |-> "CHALLENGER"]>>],
     [match_id |-> "M1", game_version |-> "15.21",
      participants |-> <<[puuid |-> "p1", champion |-> "Darius", rank_num |-> "GRANDMASTER"]>>],
     [match_id |-> "M1", game_version |-> "15.20",
      participants |-> <<[puuid |-> "p1", champion |-> "Camille", rank_num |-> "CHALLENGER"],
                         [puuid |-> "p2", champion |-> "Fiora", rank_num |-> "None"]>>],
     [match_id |-> "M2", game_version |-> "15.20",
      participants |-> <<[puuid |-> "p2", champion |-> "Fiora", rank_num |-> "CHALLENGER"]>>]}
MatchLists == SeqsUpTo(StoreMatches, MaxBatch)
\* the most participants a match of StoreMatches has
MaxParticipants ==
    CHOOSE n \in {Len(m.participants) : m \in StoreMatches} :
        \A m \in StoreMatches : Len(m.participants) <= n
Tables == [matches |-> matches_table, participants |-> participants_table]

\* a call ends: what it was given and what it gave back
CallEnds(name, ms, ids, new_ids, count, e) ==
    /\ pc' = name
    /\ matches' = ms
    /\ match_ids' = ids
    /\ new_match_ids' = new_ids
    /\ result' = count
    /\ exc' = e

\* MatchDatabase(): duckdb.connect and _init_schema (CREATE ... IF NOT EXISTS)
\* on the database file, whether the earlier connection is open or closed: the
\* tables stay as the file holds them and the new connection is open
call_MatchDatabase ==
    /\ StoreReady
    /\ con_closed' = FALSE
    /\ CallEnds("MatchDatabase", <<>>, {}, <<>>, 0, "none")
    /\ UNCHANGED <<matches_table, participants_table, store_frame>>
    /\ UNCHANGED <<query_vars, batch_vars, tz>>

\* MatchDatabase.close is called (lines 143-145); closing a closed connection
\* does nothing
call_MatchDatabase_close ==
    /\ StoreReady
    /\ con_closed' = TRUE
    /\ CallEnds("MatchDatabase.close", <<>>, {}, <<>>, 0, "none")
    /\ UNCHANGED <<matches_table, participants_table, store_frame>>
    /\ UNCHANGED <<query_vars, batch_vars, tz>>

\* the block `with MatchDatabase(...) as db:` is left (lines 151-153):
\* __exit__ closes the connection and lets an exception of the block pass
call_MatchDatabase_exit ==
    /\ StoreReady
    /\ con_closed' = TRUE
    /\ CallEnds("MatchDatabase.__exit__", <<>>, {}, <<>>, 0, "none")
    /\ UNCHANGED <<matches_table, participants_table, store_frame>>
    /\ UNCHANGED <<query_vars, batch_vars, tz>>

\* MatchDatabase.upsert_match is called
call_upsert_match(m) ==
    /\ StoreReady
    /\ IF con_closed
       THEN /\ CallEnds("upsert_match", <<m>>, {}, <<>>, 0, "ConnectionException")
            /\ UNCHANGED <<matches_table, participants_table>>
       ELSE /\ CallEnds("upsert_match", <<m>>, {}, <<>>, 0, "none")
            /\ matches_table' = upsert_match(Tables, m).matches
            /\ participants_table' = upsert_match(Tables, m).participants
    /\ UNCHANGED <<con_closed, store_frame>>
    /\ UNCHANGED <<query_vars, batch_vars, tz>>

\* MatchDatabase.upsert_many is called and no statement fails: every statement is
\* committed on its own, and leaving `with self.con:` closes the connection
call_upsert_many(ms) ==
    /\ StoreReady
    /\ IF con_closed /\ ms # <<>>
       THEN /\ CallEnds("upsert_many", ms, {}, <<>>, 0, "ConnectionException")
            /\ UNCHANGED <<matches_table, participants_table>>
       ELSE /\ CallEnds("upsert_many", ms, {}, <<>>, upsert_many_count(ms), "none")
            /\ matches_table' = upsert_many_db(Tables, ms).matches
            /\ participants_table' = upsert_many_db(Tables, ms).participants
    /\ con_closed' = TRUE
    /\ UNCHANGED store_frame
    /\ UNCHANGED <<query_vars, batch_vars, tz>>

\* upsert_many where a statement of the k-th upsert_match fails: the INSERT of
\* its match row (r = 0), or the r-th run of the INSERT of its participants,
\* which executemany runs once per row, each run committed on its own
call_upsert_many_fails(ms, k, r) ==
    /\ StoreReady
    /\ ~con_closed
    /\ k \in DOMAIN ms
    /\ r \in 0..Len(ms[k].participants)
    /\ LET before == upsert_many_db(Tables, SubSeq(ms, 1, k - 1))
           db == IF r > 0
                 THEN upsert_match(before,
                        [ms[k] EXCEPT !.participants = SubSeq(@, 1, r - 1)])
                 ELSE before
       IN /\ matches_table' = db.matches
          /\ participants_table' = db.participants
    /\ CallEnds("upsert_many", ms, {}, <<>>, 0, "store_error")
    /\ con_closed' = TRUE
    /\ UNCHANGED store_frame
    /\ UNCHANGED <<query_vars, batch_vars, tz>>

\* variant: the filter records the ids it let through as stored
call_get_only_new_match_ids_marks_seen(ids) ==
    /\ StoreReady
    /\ ~con_closed
    /\ \E order \in Orderings(get_only_new_match_ids(matches_table, ids)) :
          CallEnds("get_only_new_match_ids", <<>>, ids, order, 0, "none")
    /\ matches_table' = matches_table \cup
          {[match_id |-> id, game_version |-> "15.20"] :
              id \in get_only_new_match_ids(matches_table, ids)}
    /\ UNCHANGED <<participants_table, con_closed, store_frame>>
    /\ UNCHANGED <<query_vars, batch_vars, tz>>

\* MatchDatabase.get_only_new_match_ids is called
call_get_only_new_match_ids(ids) ==
    /\ StoreReady
    /\ IF con_closed /\ ids # {}
       THEN CallEnds("get_only_new_match_ids", <<>>, ids, <<>>, 0, "ConnectionException")
       ELSE \E order \in Orderings(get_only_new_match_ids(matches_table, ids)) :
               CallEnds("get_only_new_match_ids", <<>>, ids, order, 0, "none")
    /\ UNCHANGED <<matches_table, participants_table, con_closed, store_frame>>
    /\ UNCHANGED <<query_vars, batch_vars, tz>>

\* variant: only the participant rows are deleted
call_MatchDatabase_clear_all_data_participants_only ==
    /\ StoreReady
    /\ IF con_closed
       THEN /\ CallEnds("MatchDatabase.clear_all_data", <<>>, {}, <<>>, 0, "ConnectionException")
            /\ UNCHANGED <<matches_table, participants_table>>
       ELSE /\ CallEnds("MatchDatabase.clear_all_data", <<>>, {}, <<>>,
                        Cardinality(matches_table), "none")
            /\ participants_table' = {}
            /\ matches_table' = matches_table
    /\ UNCHANGED <<con_closed, store_frame>>
    /\ UNCHANGED <<query_vars, batch_vars, tz>>

\* MatchDatabase.clear_all_data is called; the frame keeps the number of match
\* rows the second DELETE found
call_MatchDatabase_clear_all_data ==
    /\ StoreReady
    /\ IF con_closed
       THEN /\ CallEnds("MatchDatabase.clear_all_data", <<>>, {}, <<>>, 0, "ConnectionException")
            /\ UNCHANGED <<matches_table, participants_table>>
       ELSE /\ CallEnds("MatchDatabase.clear_all_data", <<>>, {}, <<>>,
                        Cardinality(matches_table), "none")
            /\ participants_table' = {}
            /\ matches_table' = {}
    /\ UNCHANGED <<con_closed, store_frame>>
    /\ UNCHANGED <<query_vars, batch_vars, tz>>

NextStore ==
    \/ call_MatchDatabase
    \/ \E m \in StoreMatches : call_upsert_match(m)
    \/ \E ms \in MatchLists : call_upsert_many(ms)
    \/ \E ms \in MatchLists, k \in 1..MaxBatch, r \in 0..MaxParticipants :
          call_upsert_many_fails(ms, k, r)
    \/ \E ids \in SUBSET MatchIds : call_get_only_new_match_ids(ids)
    \/ call_MatchDatabase_clear_all_data
    \/ call_MatchDatabase_close
    \/ call_MatchDatabase_exit

SpecStore == Init /\ [][NextStore]_vars


\* --------------------------------------------------------------- claims
\* rows of query_progress for a context, and the offsets they record
ProgressRows(c) ==
    {r \in query_progress : /\ r.platform = c[1] /\ r.start_time = c[2]
                            /\ r.end_time = c[3] /\ r.puuid = c[4]}
RecordedOffsets(c) == {r.last_start_index : r \in ProgressRows(c)}
TaskContext(j) == Context(args, args.players[j])
\* the player of position j stands at no other position of players
OccursOnce(j) == \A k \in DOMAIN args.players : k # j => args.players[k] # args.players[j]
\* the player of position j stands at no earlier position of players
FirstOccurrence(j) == \A k \in DOMAIN args.players : k < j => args.players[k] # args.players[j]
\* the id-listing request of the task was sent
Requested(t) == t.st \in {"inflight", "ok", "error", "write_error"}
\* the ids whose detail request was sent
DetailRequested ==
    {new_match_ids[j] : j \in {k \in DOMAIN detail_tasks : detail_tasks[k].st # "pending"}}

\* C1: a failed id-listing request does not end the call: the call raises only for an
\* empty players list or when the novelty filter raises after phase 1 (on a
\* connection that an earlier call closed), and once phase 1 is over every player's task has run, the
\* failed ones contributed no id, and match_ids is exactly the ids of the
\* successful listings.
C1_IdFetchFailureIsolated ==
    /\ pc = "raised" => exc \in {"division", "filter"}
    /\ exc = "division" => args.players = <<>>
    /\ (pc \in {"phase3", "returned"} \/ exc = "filter") =>
          /\ \A j \in DOMAIN id_tasks : id_tasks[j].st \in {"ok", "error"}
          /\ \A j \in DOMAIN id_tasks : id_tasks[j].st = "error" => id_tasks[j].ids = <<>>
          /\ match_ids = UNION {Range(id_tasks[j].ids) :
                                  j \in {k \in DOMAIN id_tasks : id_tasks[k].st = "ok"}}

\* C1 case: the first player's request failed, a later player's listing succeeded
\* and its ids are in match_ids when phase 1 is over.
C1_Witness ==
    /\ pc = "phase3"
    /\ Len(id_tasks) = 2
    /\ id_tasks[1].st = "error"
    /\ id_tasks[2].st = "ok"
    /\ id_tasks[2].ids # <<>>
    /\ Range(id_tasks[2].ids) \subseteq match_ids

\* C2 (as the spec states it): when the detail fetch or parse of one id failed and
\* the call returned, every match whose fetch and parse succeeded is in the Match Store.
C2_OthersPersisted ==
    (/\ pc = "returned"
     /\ \E j \in DOMAIN detail_tasks : detail_tasks[j].outcome = "error")
    => \A j \in DOMAIN detail_tasks :
          detail_tasks[j].outcome \in {"rank_error", "appended"}
              => new_match_ids[j] \in StoredIds

\* C3: a detail request is sent only for ids of match_ids that the Match Store did
\* not hold when the filter ran (the store does not change during phase 3).
C3_OnlyUnseenFetched ==
    pc = "phase3" => DetailRequested \subseteq (match_ids \ StoredIds)

\* C3 case: M1 is stored and listed again together with M2; only M2 is requested.
C3_Witness ==
    /\ pc = "phase3"
    /\ "M1" \in StoredIds
    /\ {"M1", "M2"} \subseteq match_ids
    /\ DetailRequested = {"M2"}
    /\ \A j \in DOMAIN detail_tasks : detail_tasks[j].st = "done"

\* C4: for a player standing once in players, the request is sent at the stored
\* offset s (0 without a record), and after a successful listing of k ids the
\* record of the context exists and holds s + k, also when k = 0.
C4_ProgressAdvancedByK ==
    \A j \in DOMAIN id_tasks :
        OccursOnce(j) =>
            /\ id_tasks[j].st = "inflight" =>
                  /\ RecordedOffsets(TaskContext(j)) \subseteq {id_tasks[j].start_index}
                  /\ RecordedOffsets(TaskContext(j)) = {} => id_tasks[j].start_index = 0
            /\ id_tasks[j].st = "ok" =>
                  RecordedOffsets(TaskContext(j)) =
                      {id_tasks[j].start_index + Len(id_tasks[j].ids)}

\* C4 case: k = 0 without a record: the context had no record (no listing of it
\* was recorded before), the listing at offset 0 returned no id, and the record now
\* exists and holds 0.
C4_Witness ==
    \E j \in DOMAIN id_tasks :
        /\ OccursOnce(j) /\ id_tasks[j].st = "ok"
        /\ id_tasks[j].start_index = 0 /\ id_tasks[j].ids = <<>>
        /\ ~id_tasks[j].zero_before
        /\ RecordedOffsets(TaskContext(j)) = {0}

\* C5 (as the spec states it): when the previous listing of the context returned
\* no id, the next call does not send its request at that offset again.
C5_EmptyPageNotRequestedAgain ==
    \A j \in DOMAIN id_tasks :
        (Requested(id_tasks[j]) /\ FirstOccurrence(j) /\ id_tasks[j].zero_before)
            => id_tasks[j].start_index # id_tasks[j].prev_end

\* C5 (amended): a listing that returns no id at offset s records s itself (the
\* record is created when missing, the offset is not advanced), and the next call
\* for the context sends its request at the same offset s again.
C5_EmptyPageRequestedAgain ==
    \A j \in DOMAIN id_tasks :
        /\ (id_tasks[j].st = "ok" /\ id_tasks[j].ids = <<>> /\ OccursOnce(j))
              => RecordedOffsets(TaskContext(j)) = {id_tasks[j].start_index}
        /\ (Requested(id_tasks[j]) /\ FirstOccurrence(j) /\ id_tasks[j].zero_before)
              => id_tasks[j].start_index = id_tasks[j].prev_end

\* C5 case: a request is sent for a context whose previous listing, in an earlier
\* call, returned no id.
C5_Witness ==
    \E j \in DOMAIN id_tasks :
        /\ Requested(id_tasks[j]) /\ FirstOccurrence(j)
        /\ id_tasks[j].zero_before
        /\ id_tasks[j].start_index = id_tasks[j].prev_end

\* no record disappears and no recorded offset decreases in this step
OffsetsMonotone ==
    \A c \in Contexts :
        \A o \in RecordedOffsets(c) : \E o2 \in RecordedOffsets(c)' : o2 >= o

\* C6: without a clear the recorded offset of a context never decreases, and a
\* successful listing starts exactly where the previous recorded listing of its
\* context ended, so no range of offsets is listed twice.
C6_OffsetsMonotoneContiguous ==
    /\ [](\A j \in DOMAIN id_tasks :
             id_tasks[j].st = "ok" => id_tasks[j].start_index = id_tasks[j].prev_end)
    /\ [][QueryProgressTracker_clear_all_data \/ OffsetsMonotone]_vars

\* C6 case: a successful listing that continues an earlier one: it starts at the
\* offset s > 0 where that one ended and returns ids.
C6_Witness ==
    \E j \in DOMAIN id_tasks :
        /\ id_tasks[j].st = "ok"
        /\ id_tasks[j].start_index > 0
        /\ id_tasks[j].start_index = id_tasks[j].prev_end
        /\ id_tasks[j].ids # <<>>

\* C7: with players = [] the call raises ZeroDivisionError: it never reaches a
\* phase or a return, no task and no request exists, and the step that enters it
\* leaves both stores as they were.
C7_EmptyPlayersRaises ==
    /\ [](args.players = <<>> =>
             /\ pc \in {"idle", "raised"}
             /\ pc = "raised" => exc = "division"
             /\ id_tasks = <<>> /\ detail_tasks = <<>> /\ match_ids = {})
    /\ [][(args'.players = <<>> /\ pc' # "idle") => UNCHANGED store_vars]_vars

\* C7 case: a call with players = [] has raised while the Progress Store held records.
C7_Witness ==
    /\ pc = "raised"
    /\ exc = "division"
    /\ args.players = <<>>
    /\ query_progress # {}

\* C8 (as the spec states it): an exception of a Progress Store call leaves
\* gather_matches, so a call in which one was raised never returns a count.
C8_ProgressStoreFailurePropagates ==
    pc = "returned" => ~ProgressStoreFailed

\* C9: an exception of the Match Store is not handled: after get_only_new_match_ids
\* raised the call has raised and no detail request was or will be sent; a call
\* that reached the detail phase or returned saw no such exception.
C9_MatchStoreFailurePropagates ==
    /\ exc = "filter" =>
          /\ pc = "raised"
          /\ detail_tasks = <<>> /\ new_match_ids = <<>> /\ matches = <<>>
    /\ pc \in {"phase3", "returned"} => exc = "none"

\* C9 case: the id set was not empty and the filter raised.
C9_Witness ==
    /\ exc = "filter"
    /\ pc = "raised"
    /\ match_ids # {}

\* C10: every id-listing request asks for max(ceil(target / |players|), 2) ids: the
\* count is at least 2, count * |players| covers the target, and above 2 it is the
\* least such count; with 2 players and target 10 it is 5.
C10_RequestCount ==
    /\ MatchesPerPlayer(10, 2) = 5
    /\ \A j \in DOMAIN id_tasks :
          Requested(id_tasks[j]) =>
              LET count == id_tasks[j].count
                  n == Len(args.players)
              IN /\ count >= 2
                 /\ count * n >= args.target
                 /\ count > 2 => (count - 1) * n < args.target

\* C10 case: 2 players and target 5, the request asks for 3 ids.
C10_Witness ==
    \E j \in DOMAIN id_tasks :
        /\ Requested(id_tasks[j])
        /\ Len(args.players) = 2
        /\ args.target = 5
        /\ id_tasks[j].count = 3

\* the positions of the detail tasks whose fetch and parse succeeded
ParsedTasks ==
    {j \in DOMAIN detail_tasks : detail_tasks[j].outcome \in {"rank_error", "appended"}}

\* C11 (as the spec states it): a call that returned handed upsert_many exactly the
\* matches whose detail fetch and parse succeeded in this call, and returned the
\* count upsert_many gave, at most the number of unseen ids.
C11_UpsertOnceAllParsed ==
    pc = "returned" =>
        /\ {matches[k].match_id : k \in DOMAIN matches} = {new_match_ids[j] : j \in ParsedTasks}
        /\ Len(matches) = Cardinality(ParsedTasks)
        /\ result = upsert_many_count(matches)
        /\ result <= Len(new_match_ids)

\* C13: read-your-write of the Progress Store: after any sequence of updates and
\* clears, get_query_start_index of a context is the index of the last update of
\* exactly that context since the last clear, and 0 when there is none; a call of
\* get_query_start_index returns that value and changes no record.
C13_ReadYourWrite ==
    /\ [](\A c \in Contexts :
             get_query_start_index(query_progress, c[1], c[2], c[3], c[4]) = last_end[c])
    /\ [](pc = "get_query_start_index" => result = last_end[Context(args, args.players[1])])
    /\ [][pc' = "get_query_start_index" => query_progress' = query_progress]_vars

\* C13 case: a context was updated twice, the second index below the first, another
\* context holds a different index, and get_query_start_index returned the second.
C13_Witness ==
    /\ pc = "get_query_start_index"
    /\ result = 1
    /\ \E c \in Contexts : c # Context(args, args.players[1]) /\ last_end[c] = 2
    /\ \E r \in query_progress : r.last_start_index = 1

\* C14: get_only_new_match_ids(S) is exactly S minus the match ids stored, for
\* every set S and every state of the store: a subset of S, and empty for the
\* empty set, which needs no query (it returns also on a closed connection).
C14_FilterIsSetDifference ==
    /\ \A S \in SUBSET MatchIds :
          /\ get_only_new_match_ids(matches_table, S) = S \ StoredIds
          /\ get_only_new_match_ids(matches_table, S) \subseteq S
    /\ get_only_new_match_ids(matches_table, {}) = {}
    /\ (pc = "get_only_new_match_ids" /\ exc = "none") =>
          Range(new_match_ids) = match_ids \ StoredIds
    /\ (pc = "get_only_new_match_ids" /\ match_ids = {}) =>
          exc = "none" /\ new_match_ids = <<>>

\* C14 case: M1 is stored and the filter was called with {M1, M2, M3}: it
\* returned {M2, M3}.
C14_Witness ==
    /\ pc = "get_only_new_match_ids"
    /\ exc = "none"
    /\ StoredIds = {"M1"}
    /\ match_ids = {"M1", "M2", "M3"}
    /\ Range(new_match_ids) = {"M2", "M3"}

\* C15: a call of get_only_new_match_ids leaves both tables as they were, so the
\* same call made again right after it returns the same set.
C15_FilterReadOnly ==
    [][pc' = "get_only_new_match_ids" =>
          /\ matches_table' = matches_table
          /\ participants_table' = participants_table
          /\ exc' = "none" =>
                get_only_new_match_ids(matches_table', match_ids') = Range(new_match_ids')]_vars

\* C15 case: the filter was called on a store holding some of the ids asked for
\* and returned the others.
C15_Witness ==
    /\ pc = "get_only_new_match_ids"
    /\ exc = "none"
    /\ matches_table # {} /\ participants_table # {}
    /\ new_match_ids # <<>>
    /\ Range(new_match_ids) # match_ids

\* the row upsert_match writes for a match that is not stored yet
MatchRow(m) == [match_id |-> m.match_id, game_version |-> m.game_version]

\* C16 (as the spec states it): upserting matches that are already stored does not
\* raise; it ends normally and the store holds exactly one row for each of them.
C16_UpsertIdempotent ==
    (/\ pc = "upsert_many"
     /\ exc # "store_error"
     /\ matches # <<>>
     /\ \A k \in DOMAIN matches : MatchRow(matches[k]) \in matches_table)
    => /\ exc = "none"
       /\ \A k \in DOMAIN matches :
             Cardinality({r \in matches_table : r.match_id = matches[k].match_id}) = 1

\* C17: whatever upsert_many, upsert_match and clear_all_data calls were made (also
\* calls that failed part-way), the store holds at most one match row per match_id,
\* at most one participant row per (match_id, puuid), and every participant row
\* has the match row of its match_id.
C17_KeysUnique ==
    /\ \A r1, r2 \in matches_table : r1.match_id = r2.match_id => r1 = r2
    /\ \A r1, r2 \in participants_table :
          (r1.match_id = r2.match_id /\ r1.puuid = r2.puuid) => r1 = r2
    /\ \A r \in participants_table : r.match_id \in StoredIds

\* C17 case: M1 was stored, and an upsert_many of two matches with the id M1, one
\* with other field values and one with a further player, has ended.
C17_Witness ==
    /\ pc = "upsert_many"
    /\ exc = "none"
    /\ Len(matches) = 2
    /\ matches[1].match_id = "M1" /\ matches[2].match_id = "M1"
    /\ matches[1].game_version # matches[2].game_version
    /\ Cardinality({r \in participants_table : r.match_id = "M1"}) = 2

\* C18: stored rows are write-once: a step that is not a clear_all_data call keeps
\* every match row and every participant row as it is, all fields included.
C18_FirstWriteWins ==
    [][pc' # "MatchDatabase.clear_all_data" =>
          /\ matches_table \subseteq matches_table'
          /\ participants_table \subseteq participants_table']_vars

\* C18 case: M1 is stored with game version 15.20 and p1 at rank 30, after an
\* upsert of M1 with game version 15.21 and p1 at rank GRANDMASTER.
C18_Witness ==
    /\ pc \in {"upsert_match", "upsert_many"}
    /\ exc = "none"
    /\ \E k \in DOMAIN matches :
          /\ matches[k].match_id = "M1"
          /\ matches[k].game_version = "15.21"
          /\ matches[k].participants[1].rank_num = "GRANDMASTER"
    /\ [match_id |-> "M1", game_version |-> "15.20"] \in matches_table
    /\ \E r \in participants_table :
          r.match_id = "M1" /\ r.puuid = "p1" /\ r.rank_num = 30 /\ r.champion = "Camille"

\* C19: an upsert_many call that returns gives the length of its input, whether or
\* not the ids were stored before or stand twice in the input.
C19_CountIsInputLength ==
    (pc = "upsert_many" /\ exc = "none") => result = Len(matches)

\* C19 case: the input held the same match id twice, one row is stored, 2 was returned.
C19_Witness ==
    /\ pc = "upsert_many"
    /\ exc = "none"
    /\ Len(matches) = 2
    /\ matches[1].match_id = matches[2].match_id
    /\ Cardinality(matches_table) = 1
    /\ result = 2

\* C20 (as the spec states it): an upsert_many call in which an insert fails leaves
\* both tables as they were before the call.
C20_UpsertManyAtomic ==
    [][(pc' = "upsert_many" /\ exc' = "store_error") =>
          /\ matches_table' = matches_table
          /\ participants_table' = participants_table]_vars

\* ------------------------------------------------------------ query_matches
QueryRunning == qpc # "idle"

\* C21: a query_matches call makes at most MAX_ITERATIONS (10) gather_matches
\* calls and at most 10 roster fetches, whatever the target and also when
\* every gather_matches call returns 0.
C21_AtMostMaxIterations ==
    /\ qlog.calls <= 10
    /\ qlog.rosters <= 10

\* a call with a positive target that made its tenth gather_matches call, all
\* of them having returned 0, and then returned
C21_Witness ==
    /\ qpc = "returned"
    /\ qargs.num_matches > 0
    /\ qlog.calls = 10
    /\ qlog.rosters = 10
    /\ qlog.sum = 0

\* C22: query_matches with target 0 returns 0 for every rank, fetches no
\* roster and calls gather_matches never; from the call on, the only step is
\* the return of 0.
C22_ZeroTarget ==
    /\ [](QueryRunning /\ qargs.num_matches = 0 =>
            /\ qpc \in {"loop", "returned"}
            /\ qlog.rosters = 0
            /\ qlog.calls = 0
            /\ pc = "idle"
            /\ qpc = "returned" => processed_matches = 0)
    /\ [][qpc = "loop" /\ qargs.num_matches = 0 =>
            /\ qpc' = "returned"
            /\ processed_matches' = 0
            /\ UNCHANGED <<store_vars, pc, qlog>>]_vars

\* a call with target 0 for a rank below the apex ranks has returned
C22_Witness ==
    /\ qpc = "returned"
    /\ qargs.num_matches = 0
    /\ qargs.rank = 27
    /\ processed_matches = 0

\* C23: the value query_matches returns is the sum of the counts its
\* gather_matches calls returned, and then the sum is at least the target or
\* exactly MAX_ITERATIONS calls were made; once the tenth call has returned
\* with the sum below the target, the sum is returned, nothing is raised.
C23_ReturnsSum ==
    /\ [](qpc = "returned" =>
            /\ processed_matches = qlog.sum
            /\ qlog.sum >= qargs.num_matches \/ qlog.calls = 10)
    /\ [][qpc = "loop" /\ qlog.calls = 10 =>
            /\ qpc' = "returned"
            /\ processed_matches' = qlog.sum]_vars

\* a call returned less than its target after ten gather_matches calls
C23_Witness ==
    /\ qpc = "returned"
    /\ qlog.calls = 10
    /\ processed_matches < qargs.num_matches

\* C24: for an apex rank every roster fetch is made without a page and the
\* page index stays 1; for another rank the n-th roster fetch asks for page
\* n mod 10 (the index counted from 1, advanced by one modulo 10 after each
\* fetch), and the index is then (n + 1) mod 10.
C24_PageIndex ==
    qpc \in {"loop", "gather", "returned"} =>
        IF qargs.rank \in {28, 29, 30}
           THEN /\ rank_page_start_index = 1
                /\ qlog.page = NoPage
           ELSE /\ rank_page_start_index = (qlog.rosters + 1) % 10
                /\ qlog.rosters > 0 => qlog.page = qlog.rosters % 10

\* a rank below the apex ranks: the tenth roster fetch asked for page 0, and
\* the index is back at 1
C24_Witness ==
    /\ qpc = "gather"
    /\ qargs.rank = 27
    /\ qlog.rosters = 10
    /\ qlog.page = 0
    /\ rank_page_start_index = 1

\* an apex rank: the second roster fetch was made without a page
C24_WitnessApex ==
    /\ qpc = "gather"
    /\ qargs.rank = 29
    /\ qlog.rosters = 2
    /\ qlog.page = NoPage

\* ------------------------------------------------------------ Match.from_json
\* the well-formed payloads the API may answer a detail request for id with
WellFormedPayloads(id) == {PayloadNoParticipants(id), PayloadOneParticipant(id)}

\* C26 (as the spec states it): Match.from_json applied to a well-formed
\* payload returns a Match whose match_id and game fields are the payload's
\* and that has one participant per payload participant, each with the
\* payload's puuid, champion, positions, team id and win flag. Stated of every
\* well-formed payload a detail request in flight may be answered with.
C26_FromJsonWellFormed ==
    \A j \in DOMAIN detail_tasks :
        detail_tasks[j].st = "inflight" =>
            \A payload \in WellFormedPayloads(new_match_ids[j]) :
                LET r == Match_from_json(payload)
                    pp == payload.info.participants
                IN /\ r.ok
                   /\ r.value.match_id = payload.metadata.matchId
                   /\ r.value.game_creation = payload.info.gameCreation
                   /\ r.value.game_duration = payload.info.gameDuration
                   /\ r.value.game_end_timestamp = payload.info.gameEndTimestamp
                   /\ r.value.game_mode = payload.info.gameMode
                   /\ r.value.game_start_timestamp = payload.info.gameStartTimestamp
                   /\ r.value.game_type = payload.info.gameType
                   /\ r.value.game_version = payload.info.gameVersion
                   /\ Len(r.value.participants) = Len(pp)
                   /\ \A k \in DOMAIN pp :
                         /\ r.value.participants[k].puuid = pp[k].puuid
                         /\ r.value.participants[k].champion = pp[k].championName
                         /\ r.value.participants[k].individual_position = pp[k].individualPosition
                         /\ r.value.participants[k].team_position = pp[k].teamPosition
                         /\ r.value.participants[k].team_id = pp[k].teamId
                         /\ r.value.participants[k].win = pp[k].win

\* ------------------------------------------------------------ batches
\* gather_matches run with both batch sizes 1: the players are served one
\* after the other, every listing succeeding. The Progress Store rows and the
\* id set after the first j players, from the rows tbl.
RECURSIVE SequentialRun(_, _, _)
SequentialRun(tbl, a, j) ==
    IF j = 0 THEN [progress |-> tbl, ids |-> {}]
    ELSE LET before == SequentialRun(tbl, a, j - 1)
             puuid == a.players[j]
             start_index == get_query_start_index(before.progress, a.platform,
                                a.start_time, a.end_time, puuid)
             ids == MatchIdsPage(puuid, PLATFORM_TO_REGION[a.platform],
                        iso_to_timestamp_s(a.start_time, tz), iso_to_timestamp_s(a.end_time, tz),
                        start_index, MatchesPerPlayer(a.target, Len(a.players)))
         IN [progress |-> update_start_index(before.progress, a.platform, a.start_time,
                              a.end_time, puuid, NextStartIndex(start_index, ids)),
             ids |-> before.ids \cup Range(ids)]

AllListingsSucceeded == \A j \in DOMAIN id_tasks : id_tasks[j].st = "ok"

\* C25 (as the spec states it): the batch sizes do not affect the outcome.
\* A call in which every listing succeeded ends, whatever its batch sizes,
\* with the Progress Store rows, the id set and the unseen ids (the matches
\* to fetch and persist) of the run with batch sizes 1.
C25_BatchSizeIrrelevant ==
    (pc = "returned" /\ AllListingsSucceeded) =>
        LET seq == SequentialRun(progress_at_entry, args, Len(args.players))
        IN /\ query_progress = seq.progress
           /\ match_ids = seq.ids
           /\ Range(new_match_ids) = get_only_new_match_ids(matches_table, seq.ids)

IdTasksOver == \A j \in DOMAIN id_tasks : IdTaskDone(id_tasks[j])
DetailTasksOver == \A j \in DOMAIN detail_tasks : DetailTaskDone(detail_tasks[j])

\* C27: phase boundaries. While an id task has not finished, the filter has
\* not run and there is no detail task; a detail request is made only after
\* every id task has finished and the filter has returned; the call returns
\* (the upsert has run) only after every detail task has finished.
C27_PhaseBoundaries ==
    /\ ~IdTasksOver => /\ pc = "phase1"
                       /\ new_match_ids = <<>>
                       /\ detail_tasks = <<>>
    /\ (\E j \in DOMAIN detail_tasks : detail_tasks[j].st # "pending") =>
          /\ pc \in {"phase3", "returned"}
          /\ IdTasksOver
    /\ pc = "phase3" => IdTasksOver
    /\ pc = "returned" => IdTasksOver /\ DetailTasksOver

\* two players in two batches, one listing failed and one succeeded, and a
\* detail request is in flight
C27_Witness ==
    /\ pc = "phase3"
    /\ Len(args.players) = 2
    /\ batch_size.match_ids_by_puuid = 1
    /\ \E j \in DOMAIN id_tasks : id_tasks[j].st = "error"
    /\ \E j \in DOMAIN id_tasks : id_tasks[j].st = "ok"
    /\ \E j \in DOMAIN detail_tasks : detail_tasks[j].st = "inflight"

\* the batch of the task at position j, for batches of the given size
BatchOf(j, size) == (j - 1) \div size

\* C28: batch barrier. In both fetch phases a task of a later batch has
\* started only if every task of the earlier batches has finished, and the
\* requests in flight are at most the batch size of the phase.
C28_BatchBarrier ==
    /\ pc = "phase1" =>
          /\ \A j, k \in DOMAIN id_tasks :
                (/\ BatchOf(j, batch_size.match_ids_by_puuid)
                      < BatchOf(k, batch_size.match_ids_by_puuid)
                 /\ id_tasks[k].st # "pending") => IdTaskDone(id_tasks[j])
          /\ Cardinality({j \in DOMAIN id_tasks : id_tasks[j].st = "inflight"})
                <= batch_size.match_ids_by_puuid
    /\ pc = "phase3" =>
          /\ \A j, k \in DOMAIN detail_tasks :
                (/\ BatchOf(j, batch_size.match_details) < BatchOf(k, batch_size.match_details)
                 /\ detail_tasks[k].st # "pending") => DetailTaskDone(detail_tasks[j])
          /\ Cardinality({j \in DOMAIN detail_tasks : detail_tasks[j].st = "inflight"})
                <= batch_size.match_details

\* batches of two: the two detail requests of the first batch are in flight
\* together, the third id waits
C28_Witness ==
    /\ pc = "phase3"
    /\ batch_size.match_details = 2
    /\ Len(new_match_ids) = 3
    /\ detail_tasks[1].st = "inflight"
    /\ detail_tasks[2].st = "inflight"
    /\ detail_tasks[3].st = "pending"

\* C29 (as the spec states it): no update is lost. When phase 1 is over the
\* id set is the union of the id lists of the successful listings, and when
\* phase 3 is over the match list holds exactly one entry for each detail
\* fetch that succeeded and parsed.
C29_NoLostUpdate ==
    /\ pc \in {"phase3", "returned"} =>
          match_ids = UNION {Range(id_tasks[j].ids) :
                               j \in {k \in DOMAIN id_tasks : id_tasks[k].st = "ok"}}
    /\ pc = "returned" =>
          /\ Len(matches) = Cardinality(ParsedTasks)
          /\ \A j \in ParsedTasks :
                Cardinality({k \in DOMAIN matches :
                                matches[k].match_id = new_match_ids[j]}) = 1

\* C30: every unseen id is detail-fetched exactly once in a call. The task
\* list holds each unseen id once; a request that was made is not made again,
\* a task that ended (also in failure) stays as it ended; and the call
\* returns only when the request of every unseen id has been made.
C30_EachUnseenIdFetchedOnce ==
    /\ [](pc = "phase3" =>
            /\ Range(new_match_ids) = get_only_new_match_ids(matches_table, match_ids)
            /\ \A j, k \in DOMAIN new_match_ids :
                  new_match_ids[j] = new_match_ids[k] => j = k
            /\ DOMAIN detail_tasks = DOMAIN new_match_ids)
    /\ [](pc = "returned" =>
            \A j \in DOMAIN new_match_ids :
                j \in DOMAIN detail_tasks /\ detail_tasks[j].st = "done")
    /\ [][(pc = "phase3" /\ pc' = "phase3") =>
            \A j \in DOMAIN detail_tasks :
                /\ detail_tasks[j].st # "pending" => detail_tasks'[j].st # "pending"
                /\ detail_tasks[j].st = "done" => detail_tasks'[j] = detail_tasks[j]]_vars

\* batches of two over three unseen ids: the call returned, one detail
\* request had failed
C30_Witness ==
    /\ pc = "returned"
    /\ batch_size.match_details = 2
    /\ Len(new_match_ids) = 3
    /\ \E j \in DOMAIN detail_tasks : detail_tasks[j].outcome = "error"
    /\ \A j \in DOMAIN detail_tasks : detail_tasks[j].st = "done"

\* ------------------------------------------------------------ termination
\* C31: when every request eventually completes, a gather_matches call with a
\* non-empty players list eventually runs the upsert and returns; a request
\* that failed counts as a finished task and does not hold up its batch.
C31_CallTerminates ==
    (pc = "phase1") ~> (pc = "returned")

\* every call ends: it returns, or the novelty filter raises
C31_CallEnds ==
    /\ (pc = "phase1") ~> (pc \in {"returned", "raised"})
    /\ [](pc = "raised" => exc = "filter" /\ con_closed)

\* a call returned although the listing of the first of its two batches and a
\* detail request had failed
C31_ReturnedAfterFailures ==
    /\ pc = "returned"
    /\ Len(args.players) = 2
    /\ batch_size.match_ids_by_puuid = 1
    /\ id_tasks[1].st = "error"
    /\ id_tasks[2].st = "ok"
    /\ \E j \in DOMAIN detail_tasks : detail_tasks[j].outcome = "error"

\* ------------------------------------------------------------ clear_all_data
Cleared == pc = "MatchDatabase.clear_all_data" /\ exc = "none"

\* C32: MatchDatabase.clear_all_data removes every match row and every
\* participant row. After a clear that returned, both tables are empty and
\* the filter lets every set of ids through; the call that follows it, when
\* it is get_only_new_match_ids(S), returns S, and when it is upsert_match(m)
\* stores m as new: its match row and each of its participants.
C32_ClearRemovesAll ==
    /\ [](Cleared =>
            /\ matches_table = {}
            /\ participants_table = {}
            /\ \A S \in SUBSET MatchIds : get_only_new_match_ids(matches_table, S) = S)
    /\ [][(Cleared /\ pc' = "get_only_new_match_ids" /\ exc' = "none") =>
            Range(new_match_ids') = match_ids']_vars
    /\ [][(Cleared /\ pc' = "upsert_match" /\ exc' = "none") =>
            /\ matches_table' = {MatchRow(matches'[1])}
            /\ {<<r.match_id, r.puuid, r.champion>> : r \in participants_table'} =
                  {<<matches'[1].match_id, matches'[1].participants[k].puuid,
                     matches'[1].participants[k].champion>> :
                      k \in DOMAIN matches'[1].participants}]_vars

\* a clear returned that found two match rows
C32_Witness ==
    /\ Cleared
    /\ result = 2
    /\ matches_table = {}
    /\ participants_table = {}

\* ------------------------------------------------------------ cursors
\* the context of the Progress Store call the frame holds
CalledContext == Context(args, args.players[1])
\* the contexts that differ from c in exactly one of the four components
DifferInOne(c) ==
    {d \in Contexts : Cardinality({i \in 1..4 : c[i] # d[i]}) = 1}

\* C33: update_start_index of one context leaves the rows of every other
\* context as they were, also of the contexts that differ from it in one
\* component only, and get_query_start_index changes no row.
C33_CursorsIndependent ==
    /\ [][pc' = "update_start_index" =>
            \A c \in Contexts :
                c # Context(args', args'.players[1]) =>
                    {r \in query_progress' : <<r.platform, r.start_time, r.end_time, r.puuid>> = c}
                      = ProgressRows(c)]_vars
    /\ [][pc' = "get_query_start_index" => query_progress' = query_progress]_vars
    /\ [](\A c \in Contexts : Cardinality(ProgressRows(c)) <= 1)

\* the context (NA1, Day1, Day2, p1) was updated to 2 while the three contexts
\* that differ from it in the platform, in the end time and in the player hold 1
C33_Witness ==
    /\ pc = "update_start_index"
    /\ CalledContext = <<"NA1", Day1, Day2, "p1">>
    /\ RecordedOffsets(CalledContext) = {2}
    /\ Cardinality(DifferInOne(CalledContext)) = 3
    /\ \A d \in DifferInOne(CalledContext) : RecordedOffsets(d) = {1}
    /\ \E c, d \in Contexts : c[2] # d[2] /\ d \in DifferInOne(c) /\ RecordedOffsets(c) # RecordedOffsets(d)

\* ------------------------------------------------------------ failed listings
\* C34: a listing request that fails leaves the Progress Store as it was: no
\* row is created and none is advanced. As long as no other task of the call
\* serves the same player, the offset stored for the context is the one the
\* failed request was made at, which is what the next run reads and requests.
C34_FailedListingKeepsOffset ==
    /\ [][\A j \in DOMAIN id_tasks :
            (/\ j \in DOMAIN id_tasks'
             /\ id_tasks[j].st = "inflight"
             /\ id_tasks'[j].st = "error") => query_progress' = query_progress]_vars
    /\ [](\A j \in DOMAIN id_tasks :
            (id_tasks[j].st = "error" /\ OccursOnce(j)) =>
                /\ get_query_start_index(query_progress, args.platform, args.start_time,
                       args.end_time, args.players[j]) = id_tasks[j].start_index
                /\ RecordedOffsets(TaskContext(j)) \subseteq {id_tasks[j].start_index}
                /\ id_tasks[j].ids = <<>>)

\* a call returned in which the request of a player at offset 2 failed: the
\* record still holds 2; and one in which the failed request was the first
\* for its context: no record exists
C34_Witness ==
    /\ pc = "returned"
    /\ \E j \in DOMAIN id_tasks :
          /\ id_tasks[j].st = "error"
          /\ OccursOnce(j)
          /\ id_tasks[j].start_index = 2
          /\ RecordedOffsets(TaskContext(j)) = {2}
    /\ \E j \in DOMAIN id_tasks :
          /\ id_tasks[j].st = "error"
          /\ OccursOnce(j)
          /\ ProgressRows(TaskContext(j)) = {}

\* ------------------------------------------------------------ lost matches
\* the detail tasks of the call whose request or parse failed
FailedDetailTasks == {k \in DOMAIN detail_tasks : detail_tasks[k].outcome = "error"}
\* what a listing for the player of task j would return now, for a count
ListedNow(j, count) ==
    MatchIdsPage(args.players[j], PLATFORM_TO_REGION[args.platform],
                 iso_to_timestamp_s(args.start_time, tz), iso_to_timestamp_s(args.end_time, tz),
                 get_query_start_index(query_progress, args.platform, args.start_time,
                                       args.end_time, args.players[j]),
                 count)

\* C35: progress is advanced in phase 1 whatever happens in phase 3. When the
\* listing of a player returned the id m and the detail fetch of m failed in
\* the same call, the call ends with m absent from the Match Store and the
\* player's offset past the listing that held m, so that a listing for that
\* player from the stored offset does not hold m, whatever the count; and the
\* call persists no match whose id no listing of the call returned.
C35_ProgressAheadOfPersistence ==
    pc = "returned" =>
        /\ \A k \in FailedDetailTasks :
              /\ new_match_ids[k] \notin StoredIds
              /\ \A j \in DOMAIN id_tasks :
                    (id_tasks[j].st = "ok" /\ new_match_ids[k] \in Range(id_tasks[j].ids)) =>
                        /\ get_query_start_index(query_progress, args.platform,
                               args.start_time, args.end_time, args.players[j])
                             >= id_tasks[j].start_index + Len(id_tasks[j].ids)
                        /\ \A count \in 1..MaxTarget :
                              new_match_ids[k] \notin Range(ListedNow(j, count))
        /\ \A k \in DOMAIN matches : matches[k].match_id \in match_ids

\* the listing of p1 returned M1 and M2, the detail fetch of M2 failed, and
\* the call returned: the offset of p1 is 2 and M2 is not stored
C35_Witness ==
    /\ pc = "returned"
    /\ args.players = <<"p1">>
    /\ id_tasks[1].st = "ok"
    /\ id_tasks[1].ids = <<"M1", "M2">>
    /\ \E k \in FailedDetailTasks : new_match_ids[k] = "M2"
    /\ RecordedOffsets(TaskContext(1)) = {2}
    /\ "M2" \notin StoredIds

\* ------------------------------------------------------------ aborted calls
\* C36: the Match Store is not written during phases 1 to 3: every step of a
\* call other than the upsert_many that ends it leaves both tables as they
\* are, so a call that the novelty filter aborted leaves the Match Store as it
\* was when the call began; the offsets its listings advanced stay advanced.
C36_MatchStoreWrittenOnlyAtEnd ==
    /\ [][(/\ pc \in {"idle", "phase1", "phase3"}
           /\ pc' \in {"phase1", "phase3", "raised"}) =>
            /\ matches_table' = matches_table
            /\ participants_table' = participants_table]_vars
    /\ [][(pc = "phase1" /\ pc' = "raised") => query_progress' = query_progress]_vars
    /\ []((pc = "raised" /\ exc = "filter") =>
            \A j \in DOMAIN id_tasks :
                (id_tasks[j].st = "ok" /\ OccursOnce(j)) =>
                    RecordedOffsets(TaskContext(j))
                      = {id_tasks[j].start_index + Len(id_tasks[j].ids)})

\* the filter aborted a call whose listing had advanced an offset from 0 to 2;
\* the Match Store holds the row it held before
C36_Witness ==
    /\ pc = "raised"
    /\ exc = "filter"
    /\ StoredIds = {"M1"}
    /\ \E j \in DOMAIN id_tasks :
          /\ id_tasks[j].st = "ok"
          /\ id_tasks[j].start_index = 0
          /\ Len(id_tasks[j].ids) = 2
          /\ RecordedOffsets(TaskContext(j)) = {2}

\* ------------------------------------------------------------ roster pages
\* the page indices in the order 1, 2, ..., 9, 0
PageOrder == [n \in 1..MAX_PAGE_INDEX |-> n % MAX_PAGE_INDEX]

\* C37: within one query_matches call for a rank below the apex ranks no page
\* index is requested twice: the requested indices are a prefix of
\* 1, 2, ..., 9, 0, and index 0 is requested only by the tenth iteration.
C37_NoPageTwice ==
    (QueryRunning /\ qargs.rank \notin ApexRanks) =>
        /\ Len(qlog.pages) <= MAX_PAGE_INDEX
        /\ \A n \in DOMAIN qlog.pages : qlog.pages[n] = PageOrder[n]
        /\ \A m, n \in DOMAIN qlog.pages : qlog.pages[m] = qlog.pages[n] => m = n
        /\ \A n \in DOMAIN qlog.pages : qlog.pages[n] = 0 => n = 10 /\ iterations = 10

\* a call for a rank below the apex ranks requested all ten pages, page 0 last
C37_Witness ==
    /\ qpc = "returned"
    /\ qargs.rank = 27
    /\ qlog.pages = <<1, 2, 3, 4, 5, 6, 7, 8, 9, 0>>

\* ------------------------------------------------------------ the target handed on
\* Every gather_matches call of a query_matches call is handed the target the
\* query was called with, so matches_per_player depends on the roster size
\* only, and the call is made with the sum so far below the target.
C38_OriginalTargetPassed ==
    /\ []((qpc = "gather" /\ pc \in {"phase1", "phase3", "returned"}) =>
            /\ args.target = qargs.num_matches
            /\ matches_per_player = MatchesPerPlayer(qargs.num_matches, Len(args.players))
            /\ processed_matches < qargs.num_matches)
    /\ [][(qpc = "loop" /\ qpc' = "gather") =>
            processed_matches < qargs.num_matches]_vars

\* C38: every gather_matches call made by query_matches receives the original
\* target, not what remains of it, so matches_per_player is the same in every
\* iteration with the same roster size, the sum is below the target before
\* each call, and the value returned can exceed the target: a call that
\* fetched and parsed more matches than the target adds them all.
C38_SumCanExceedTarget ==
    /\ C38_OriginalTargetPassed
    /\ []((/\ qpc = "gather"
           /\ pc = "returned"
           /\ Cardinality(ParsedTasks) > qargs.num_matches) =>
             processed_matches + result > qargs.num_matches)

\* the value a query_matches call returned is never above its target
C38_NeverAboveTarget == qpc = "returned" => processed_matches <= qargs.num_matches

\* ------------------------------------------------------------ empty roster
\* C39: an empty roster makes gather_matches fail with a division by zero at
\* once, with no store touched; the failure leaves query_matches, which raises
\* and does not return the sum of the earlier iterations; the offsets advanced
\* and the matches persisted by those iterations stay in the stores.
C39_EmptyRosterRaises ==
    /\ [][(qpc = "loop" /\ qpc' = "gather" /\ Len(args'.players) = 0) =>
            /\ pc' = "raised"
            /\ exc' = "division"
            /\ UNCHANGED <<query_progress, matches_table, participants_table>>]_vars
    /\ [][(qpc = "gather" /\ exc = "division") =>
            /\ qpc' = "raised"
            /\ qlog'.raised = "division"
            /\ UNCHANGED <<query_progress, matches_table, participants_table>>]_vars
    /\ [][qpc = "raised" => qpc' = "idle"]_vars
    /\ [](qlog.raised # "none" => qpc = "raised")

\* the second roster of a call was empty: the call raised, and the offset that
\* the first iteration advanced is still recorded
C39_Witness ==
    /\ qpc = "raised"
    /\ qlog.raised = "division"
    /\ qlog.calls = 2
    /\ qargs.num_matches = 3
    /\ \E r \in query_progress : r.last_start_index = 2

\* ------------------------------------------------------------ late participants
\* the participant rows of match m whose (match_id, puuid) key is not stored
UnstoredParticipantRows(m) ==
    {[match_id |-> m.match_id, puuid |-> m.participants[k].puuid,
      champion |-> m.participants[k].champion,
      rank_num |-> RankNumColumn(m.participants[k].rank_num)] :
        k \in {i \in DOMAIN m.participants :
                 ~\E r \in participants_table :
                     /\ r.match_id = m.match_id
                     /\ r.puuid = m.participants[i].puuid}}

\* C40: upsert_match of a match whose match_id is already stored leaves the
\* match rows untouched and still inserts every participant of the match whose
\* (match_id, player) pair is not yet stored, the stored participant rows
\* staying as they are: the participants stored for a match can grow after
\* the match's first write.
C40_ParticipantsAddedToStoredMatch ==
    [][(/\ pc' = "upsert_match"
        /\ exc' = "none"
        /\ matches'[1].match_id \in StoredIds) =>
          /\ matches_table' = matches_table
          /\ participants_table'
               = participants_table \cup UnstoredParticipantRows(matches'[1])]_vars

\* match M1 was first written with game version 15.21 and the one participant
\* p1; a later upsert_match of M1 with the participants p1 and p2 added the row
\* of p2 and left the match row and the row of p1 as they were
C40_Witness ==
    /\ pc = "upsert_match"
    /\ exc = "none"
    /\ Len(matches[1].participants) = 2
    /\ matches_table = {[match_id |-> "M1", game_version |-> "15.21"]}
    /\ participants_table =
          {[match_id |-> "M1", puuid |-> "p1", champion |-> "Darius", rank_num |-> 29],
           [match_id |-> "M1", puuid |-> "p2", champion |-> "Fiora", rank_num |-> NullColumn]}

====
